---- MODULE Spec2Model ----
(***************************************************************************)
(* A model of the Spencer-Fano solver of artistools                        *)
(* (src/artistools/spencerfano.py).                                        *)
(*                                                                         *)
(* Numbers.  The program computes with IEEE doubles.  The model computes   *)
(* with exact rationals [n, d] (d > 0, lowest terms) extended by the three *)
(* non-finite doubles: +inf = [1, 0], -inf = [-1, 0] and nan = [0, 0].     *)
(* Rounding and the sign of zero are not modelled.  The transcendental     *)
(* functions are replaced by rational functions that keep the properties   *)
(* the code relies on:                                                     *)
(*   atan(x)  ->  x        odd, strictly increasing, atan(0) = 0           *)
(*   log(x)   ->  x - 1    strictly increasing, log(1) = 0, negative below *)
(*                         1 and positive above                            *)
(* so that the entries of the matrix stay rational.                        *)
(* Indices are 0-based as in the source: a vector over the grid is a       *)
(* function on 0 .. npts-1.                                                *)
(***************************************************************************)
EXTENDS Integers, Sequences, FiniteSets, TLC

(***************************************************************************)
(* The state of one process that uses the module.                          *)
(*   inp        the arguments the caller holds for the solver and the      *)
(*              analysis (main's local variables of one step)              *)
(*   sol        what the last solver call ended with                       *)
(*   ana        what the last analyse_ntspectrum call ended with           *)
(*   N_e_cache  the module-level dictionary of line 391                    *)
(*   calls      the calculate_N_e calls of the last make_plot or           *)
(*              analyse_ntspectrum, in order                               *)
(*   memo       the solver calls that returned so far, with arguments and  *)
(*              the spectrum returned                                      *)
(*   pc         where the caller is in its step                            *)
(*   step       main's loop variable                                       *)
(*   again      the number of times the caller has repeated a solve        *)
(***************************************************************************)
VARIABLES inp, sol, ana, N_e_cache, calls, memo, pc, step, again, fstat,
          estimators, estfile

vars ==
    <<inp, sol, ana, N_e_cache, calls, memo, pc, step, again, fstat, estimators, estfile>>

(***************************************************************************)
(* Extended rational arithmetic (the float operations of numpy).           *)
(***************************************************************************)
Abs(x) == IF x < 0 THEN -x ELSE x

Sgn(x) == IF x > 0 THEN 1 ELSE IF x < 0 THEN -1 ELSE 0

RECURSIVE Gcd(_, _)
Gcd(a, b) == IF b = 0 THEN a ELSE Gcd(b, a % b)

\* n/d in lowest terms with a positive denominator; x/0 is +-inf, 0/0 is nan
Rat(n, d) ==
    IF d = 0 THEN [n |-> Sgn(n), d |-> 0]
    ELSE LET g == Gcd(Abs(n), Abs(d))
             s == Sgn(d)
         IN [n |-> s * (n \div g), d |-> s * (d \div g)]

RI(k) == [n |-> k, d |-> 1]

NaN == [n |-> 0, d |-> 0]

PInf == [n |-> 1, d |-> 0]

IsFinite(x) == x.d # 0

IsNaN(x) == x.d = 0 /\ x.n = 0

IsInf(x) == x.d = 0 /\ x.n # 0

RNeg(a) == [n |-> -a.n, d |-> a.d]

(***************************************************************************)
(* The model checker's integers have 32 bits.  An operation whose exact    *)
(* result needs a numerator or denominator beyond MaxInt gives Huge, a     *)
(* finite number that the model cannot write down; Huge operands give Huge *)
(* results, and the state machine follows a run only as long as none of    *)
(* the values it keeps is Huge.                                            *)
(***************************************************************************)
MaxInt == 1073741823

Huge == [n |-> 0, d |-> -1]

\* the product a * b stays within MaxInt
Fits(a, b) == a = 0 \/ b = 0 \/ Abs(a) <= MaxInt \div Abs(b)

RAdd(a, b) ==
    IF a = Huge \/ b = Huge THEN Huge
    ELSE IF a.d # 0 /\ b.d # 0
    THEN LET g == Gcd(a.d, b.d)
         IN IF Fits(a.n, b.d \div g) /\ Fits(b.n, a.d \div g) /\ Fits(a.d \div g, b.d)
            THEN Rat(a.n * (b.d \div g) + b.n * (a.d \div g), (a.d \div g) * b.d)
            ELSE Huge
    ELSE IF a.d = 0 /\ b.d = 0 THEN (IF a.n = b.n THEN a ELSE NaN)
    ELSE IF a.d = 0 THEN a ELSE b

RSub(a, b) == RAdd(a, RNeg(b))

RMul(a, b) ==
    IF a = Huge \/ b = Huge THEN Huge
    ELSE IF a.d # 0 /\ b.d # 0
    THEN LET g1 == Gcd(Abs(a.n), b.d)
             g2 == Gcd(Abs(b.n), a.d)
         IN IF a.n = 0 \/ b.n = 0 THEN RI(0)
            ELSE IF Fits(a.n \div g1, b.n \div g2) /\ Fits(a.d \div g2, b.d \div g1)
            THEN [n |-> (a.n \div g1) * (b.n \div g2),
                  d |-> (a.d \div g2) * (b.d \div g1)]
            ELSE Huge
    ELSE [n |-> Sgn(a.n) * Sgn(b.n), d |-> 0]

\* numpy division: a division by zero gives inf or nan (and a warning), no exception
RDiv(a, b) ==
    IF a = Huge \/ b = Huge THEN Huge
    ELSE IF b.d = 0 THEN (IF a.d = 0 \/ b.n = 0 THEN NaN ELSE RI(0))
    ELSE IF a.d = 0 THEN (IF b.n = 0 THEN a ELSE [n |-> a.n * Sgn(b.n), d |-> 0])
    ELSE IF b.n = 0 THEN [n |-> Sgn(a.n), d |-> 0]
    ELSE RMul(a, [n |-> Sgn(b.n) * b.d, d |-> Abs(b.n)])

\* an/ad < bn/bd for positive ad and bd, by the continued fractions of the two
RECURSIVE FracLt(_, _, _, _)
FracLt(an, ad, bn, bd) ==
    IF an \div ad # bn \div bd THEN an \div ad < bn \div bd
    ELSE IF bn % bd = 0 THEN FALSE
    ELSE IF an % ad = 0 THEN TRUE
    ELSE FracLt(bd, bn % bd, ad, an % ad)

RLt(a, b) ==
    IF IsNaN(a) \/ IsNaN(b) \/ a = Huge \/ b = Huge THEN FALSE
    ELSE IF a.d = 0 THEN a.n = -1 /\ ~(b.d = 0 /\ b.n = -1)
    ELSE IF b.d = 0 THEN b.n = 1
    ELSE FracLt(a.n, a.d, b.n, b.d)

RLe(a, b) == ~IsNaN(a) /\ ~IsNaN(b) /\ (a = b \/ RLt(a, b))

RGt(a, b) == RLt(b, a)

RGe(a, b) == RLe(b, a)

RMin(a, b) == IF RLt(b, a) THEN b ELSE a

\* math.atan
atan(x) == x

\* the logarithm of a positive finite number
LogPos(x) == IF x = Huge THEN Huge ELSE Rat(x.n - x.d, x.d)

\* sum of f[k] for k in lo .. hi, accumulated in increasing k
RECURSIVE RSum(_, _, _)
RSum(f, lo, hi) == IF hi < lo THEN RI(0) ELSE RAdd(RSum(f, lo, hi - 1), f[hi])

\* a value computed once and used under a name: With(e, LAMBDA v : body)
With(v, Body(_)) == Body(v)

\* the same, with the value computed before the body is entered
Strict(v, Body(_)) == CHOOSE r \in {Body(x) : x \in {v}} : TRUE

(***************************************************************************)
(* The energy grid: engrid[0] < engrid[1] < ... in eV, uniform spacing.    *)
(***************************************************************************)
Npts(engrid) == Cardinality(DOMAIN engrid)

\* np.linspace(emin, emin + (npts - 1) * delta, num=npts)
linspace(emin, delta, npts) == [i \in 0 .. npts - 1 |-> emin + i * delta]

Deltaen(engrid) == engrid[1] - engrid[0]

Last(engrid) == engrid[Npts(engrid) - 1]

(***************************************************************************)
(* get_index: the last grid index whose energy is strictly below en_ev.    *)
(* err is the exception the call ends with ("" when it returns).           *)
(***************************************************************************)
get_index(en_ev, engrid) ==
    LET below == {i \in DOMAIN engrid : RLt(RI(engrid[i]), en_ev)}
    IN IF ~RGe(en_ev, RI(engrid[0])) THEN [err |-> "AssertionError", v |-> -1]
       ELSE IF ~RLt(en_ev, RI(Last(engrid) + Deltaen(engrid)))
            THEN [err |-> "AssertionError", v |-> -1]
       ELSE IF below = {} THEN [err |-> "UnboundLocalError", v |-> -1]
       ELSE [err |-> "", v |-> CHOOSE i \in below : \A k \in below : k <= i]

(***************************************************************************)
(* get_J: the Opal parameter of a shell, in eV.                            *)
(***************************************************************************)
get_J(Z, ionstage, ionpot_ev) ==
    IF ionstage = 1 /\ Z = 2 THEN Rat(158, 10)
    ELSE IF ionstage = 1 /\ Z = 10 THEN Rat(242, 10)
    ELSE IF ionstage = 1 /\ Z = 18 THEN RI(10)
    ELSE Rat(6 * ionpot_ev, 10)

(***************************************************************************)
(* at.nonthermal.get_arxs_array_shell: the ionisation cross section of a   *)
(* shell over the grid.  Its code is not part of the sources at hand; the  *)
(* specification gives "zero below the shell's ionization threshold" and   *)
(* an empirical fit above it.  The fit is represented by shell.A times the *)
(* excess energy over the threshold.                                       *)
(***************************************************************************)
get_arxs_array_shell(engrid, shell) ==
    [j \in DOMAIN engrid |->
        IF engrid[j] <= shell.ionpot_ev THEN RI(0)
        ELSE RI(shell.A * (engrid[j] - shell.ionpot_ev))]

(***************************************************************************)
(* lossfunction: the Coulomb energy loss rate of an electron of energy     *)
(* energy_ev in a plasma of electron density nne.  Units: the density unit *)
(* is the one in which zetae = sqrt(nne) eV, and the loss is in units of   *)
(* 2 pi QE^4 / EV^2 per density unit.  A logarithm is taken through the    *)
(* square of its argument, log(x) = log(x^2) / 2, which keeps sqrt out:    *)
(*   (2 * energy / zetae)^2                        = 4 E^2 / nne           *)
(*   (ME * v^3 / (eulergamma * QE^2 * omegap))^2   = c E^3 / nne           *)
(* where c = 2 EV H^2 / (pi^2 ME eulergamma^2 QE^4) = 0.882 per eV is      *)
(* taken as 1, so the second logarithm changes sign at E^3 = nne instead   *)
(* of at E^3 = 1.133 nne.                                                  *)
(* err is the exception the call ends with ("" when it returns).           *)
(***************************************************************************)
\* variant: a branch that takes the threshold energy itself as relativistic
relativistic_from_threshold(energy_ev) == ~RLt(energy_ev, RI(14))

\* nne_selected_cgs = nnetot_cgs if use_nnetot else nne_cgs (line 205)
nne_selected_cgs(nne_cgs, nnetot_cgs, use_nnetot) ==
    IF use_nnetot THEN nnetot_cgs ELSE nne_cgs

\* if energy_ev > 14 (line 213)
relativistic(energy_ev) == RGt(energy_ev, RI(14))

\* the squares of the arguments of the two logarithms (lines 215 and 219)
arg_relativistic(energy_ev, nne) ==
    RDiv(RMul(RI(4), RMul(energy_ev, energy_ev)), nne)

arg_nonrelativistic(energy_ev, nne) ==
    RDiv(RMul(RMul(energy_ev, energy_ev), energy_ev), nne)

lossfunction(energy_ev, nne_cgs, nnetot_cgs, use_nnetot) ==
    LET nne == nne_selected_cgs(nne_cgs, nnetot_cgs, use_nnetot)
        E2 == RMul(energy_ev, energy_ev)
        coeff == RDiv(nne, energy_ev)
    IN IF RLt(nne, RI(0)) THEN [err |-> "ValueError", v |-> NaN]
       ELSE IF relativistic(energy_ev) THEN
            IF ~RGt(RMul(RI(4), E2), nne) THEN [err |-> "AssertionError", v |-> NaN]
            ELSE IF nne.n = 0 THEN [err |-> "", v |-> NaN]
            ELSE [err |-> "",
                  v |-> RMul(coeff, RDiv(LogPos(arg_relativistic(energy_ev, nne)), RI(2)))]
       ELSE IF RLt(energy_ev, RI(0)) THEN [err |-> "ValueError", v |-> NaN]
       ELSE IF nne.n = 0 THEN [err |-> "ZeroDivisionError", v |-> NaN]
       ELSE IF energy_ev.n = 0 THEN [err |-> "ValueError", v |-> NaN]
       ELSE [err |-> "",
             v |-> RMul(coeff, RDiv(LogPos(arg_nonrelativistic(energy_ev, nne)), RI(2)))]

(***************************************************************************)
(* The matrix.  An assembly step is modelled by the sequence of the        *)
(* in-place updates "sfmatrix[i, j] += val" it performs, in program order; *)
(* ApplyWrites carries them out.  A write also records which term it is    *)
(* (kind), the shell or transition it belongs to (src, the row label of    *)
(* the table, 0 for the loss term) and, for the arctangent integrals, the  *)
(* integration bounds epsilon_lower and epsilon_upper.                     *)
(***************************************************************************)
ZeroMatrix(npts) == [i \in 0 .. npts - 1 |-> [j \in 0 .. npts - 1 |-> RI(0)]]

Write(i, j, kind, src, val, lo, up) ==
    [i |-> i, j |-> j, kind |-> kind, src |-> src, val |-> val,
     epsilon_lower |-> lo, epsilon_upper |-> up]

\* a variant in which a write replaces the entry instead of adding to it
RECURSIVE ApplyWrites_assigning(_, _)
ApplyWrites_assigning(m, ws) ==
    IF ws = <<>> THEN m
    ELSE LET w == Head(ws)
         IN ApplyWrites_assigning([m EXCEPT ![w.i][w.j] = w.val], Tail(ws))

RECURSIVE ApplyWrites(_, _)
ApplyWrites(m, ws) ==
    IF ws = <<>> THEN m
    ELSE LET w == Head(ws)
         IN ApplyWrites([m EXCEPT ![w.i][w.j] = RAdd(@, w.val)], Tail(ws))

(***************************************************************************)
(* sfmatrix_add_ionization_shell, row i, columns j .. npts-1 (the loop of  *)
(* lines 547-587).  sidx is secondintegralstartindex.                      *)
(***************************************************************************)
\* variant: a test that also takes the column of secondintegralstartindex itself
in_second_integral_early(j, sidx) == j >= sidx

\* if j >= secondintegralstartindex + 1 (line 580)
in_second_integral(j, sidx) == j >= sidx + 1

RECURSIVE IonShellCols(_, _, _, _, _, _)
IonShellCols(engrid, nnion, shell, i, sidx, j) ==
    IF j > Npts(engrid) - 1 THEN [err |-> "", writes |-> <<>>]
    ELSE
    LET deltaen == Deltaen(engrid)
        ionpot_ev == shell.ionpot_ev
        J == get_J(shell.Z, shell.ionstage, ionpot_ev)
        ar_xs_array == get_arxs_array_shell(engrid, shell)
        en == engrid[i]
        endash == engrid[j]
        prefactor ==
            RMul(RDiv(RMul(nnion, ar_xs_array[j]),
                      atan(RDiv(Rat(endash - ionpot_ev, 2), J))),
                 RI(deltaen))
        \* KF 92 limit
        epsilon_upper == Rat(endash + ionpot_ev, 2)
        int_eps_upper == atan(RDiv(RSub(epsilon_upper, RI(ionpot_ev)), J))
        epsilon_lower1 == RI(endash - en)
        int_eps_lower1 == atan(RDiv(RSub(epsilon_lower1, RI(ionpot_ev)), J))
        main == Write(i, j, "main", shell.index,
                      RMul(prefactor, RSub(int_eps_upper, int_eps_lower1)),
                      epsilon_lower1, epsilon_upper)
        epsilon_lower2 == RI(en + ionpot_ev)
        int_eps_lower2 == atan(RDiv(RSub(epsilon_lower2, RI(ionpot_ev)), J))
        fold == Write(i, j, "fold", shell.index,
                      RNeg(RMul(prefactor, RSub(int_eps_upper, int_eps_lower2))),
                      epsilon_lower2, epsilon_upper)
    IN IF ~IsFinite(prefactor) THEN [err |-> "AssertionError", writes |-> <<>>]
       ELSE IF in_second_integral(j, sidx) /\ ~RLe(epsilon_lower2, epsilon_upper)
            THEN [err |-> "AssertionError", writes |-> <<main>>]
       ELSE LET rest == IonShellCols(engrid, nnion, shell, i, sidx, j + 1)
            IN [err |-> rest.err,
                writes |-> (IF in_second_integral(j, sidx) THEN <<main, fold>>
                            ELSE <<main>>)
                           \o rest.writes]

\* a variant that starts the fold-over integral one column later
secondintegralstartindex_late(engrid, shell, i) ==
    IF 2 * engrid[i] + shell.ionpot_ev < Last(engrid) + Deltaen(engrid)
    THEN [err |-> get_index(RI(2 * engrid[i] + shell.ionpot_ev), engrid).err,
          v |-> get_index(RI(2 * engrid[i] + shell.ionpot_ev), engrid).v + 1]
    ELSE [err |-> "", v |-> Npts(engrid) + 1]

\* the column at which the fold-over integral of row i starts, minus one
secondintegralstartindex(engrid, shell, i) ==
    IF 2 * engrid[i] + shell.ionpot_ev < Last(engrid) + Deltaen(engrid)
    THEN get_index(RI(2 * engrid[i] + shell.ionpot_ev), engrid)
    ELSE [err |-> "", v |-> Npts(engrid) + 1]

\* a variant that starts every row at the threshold column
jstart_at_threshold(i, xsstartindex) == xsstartindex

\* jstart = i if i > xsstartindex else xsstartindex
jstart(i, xsstartindex) == IF i > xsstartindex THEN i ELSE xsstartindex

\* rows i .. npts-1 (the loop of line 524)
RECURSIVE IonShellRows(_, _, _, _, _)
IonShellRows(engrid, nnion, shell, xsstartindex, i) ==
    IF i > Npts(engrid) - 1 THEN [err |-> "", writes |-> <<>>]
    ELSE
    With(secondintegralstartindex(engrid, shell, i), LAMBDA sidx :
       IF sidx.err # "" THEN [err |-> sidx.err, writes |-> <<>>]
       ELSE With(IonShellCols(engrid, nnion, shell, i, sidx.v, jstart(i, xsstartindex)),
                 LAMBDA row :
            IF row.err # "" THEN row
            ELSE LET rest == IonShellRows(engrid, nnion, shell, xsstartindex, i + 1)
                 IN [err |-> rest.err, writes |-> row.writes \o rest.writes]))

sfmatrix_add_ionization_shell(engrid, nnion, shell) ==
    LET xsstartindex ==
            IF shell.ionpot_ev <= engrid[0] THEN [err |-> "", v |-> 0]
            ELSE get_index(RI(shell.ionpot_ev), engrid)
    IN IF xsstartindex.err # "" THEN [err |-> xsstartindex.err, writes |-> <<>>]
       ELSE IonShellRows(engrid, nnion, shell, xsstartindex.v, 0)

(***************************************************************************)
(* Python slices and integer helpers.                                      *)
(***************************************************************************)
Min(a, b) == IF a < b THEN a ELSE b

Max(a, b) == IF a > b THEN a ELSE b

\* math.ceil(a / b) for b > 0
CeilDiv(a, b) == -((-a) \div b)

\* the indices that the slice [start:stop] of a vector of length n selects
PySlice(start, stop, n) ==
    LET lo == IF start < 0 THEN Max(start + n, 0) ELSE Min(start, n)
        hi == IF stop < 0 THEN Max(stop + n, 0) ELSE Min(stop, n)
    IN {k \in 0 .. n - 1 : lo <= k /\ k < hi}

(***************************************************************************)
(* get_xs_excitation_vector.  Cross sections are in units of               *)
(* pi * A_naught_squared * (H_ionpot / eV)^2; the factor of the oscillator *)
(* strength form, prefactor * fij / pi, is upper_g * A / lower_g in the    *)
(* model's unit of the Einstein coefficient.  The vector starts as         *)
(* np.empty: an entry no assignment reaches stays "uninitialised".         *)
(***************************************************************************)
Uninit == [n |-> 2, d |-> 0]

\* the collision-strength form at an energy (lines 279-285)
xs_collision_strength(row, energy_ev) ==
    Rat(row.collstr, row.lower_g * energy_ev * energy_ev)

\* the oscillator-strength form at an energy (lines 287-312)
xs_oscillator_strength(row, energy_ev) ==
    LET constantfactor ==
            Rat(row.upper_g * row.A,
                row.lower_g * row.epsilon_trans_ev * row.epsilon_trans_ev)
        U == Rat(energy_ev, row.epsilon_trans_ev)
        g_bar == RAdd(RMul(Rat(28, 100), LogPos(U)), Rat(15, 100))
    IN RDiv(RMul(constantfactor, g_bar), U)

\* startindex = math.ceil((epsilon_trans_ev - engrid[0]) / deltaen)
startindex(epsilon_trans_ev, engrid) ==
    CeilDiv(epsilon_trans_ev - engrid[0], Deltaen(engrid))

get_xs_excitation_vector(engrid, row) ==
    LET npts == Npts(engrid)
        epsilon_trans_ev == row.epsilon_trans_ev
        head == PySlice(0, startindex(epsilon_trans_ev, engrid), npts)
        tail == PySlice(startindex(epsilon_trans_ev, engrid), npts, npts)
        collform(j) == xs_collision_strength(row, engrid[j])
        oscform(j) == xs_oscillator_strength(row, engrid[j])
    IN [j \in 0 .. npts - 1 |->
          IF row.collstr >= 0 THEN
              (IF j \in tail THEN collform(j)
               ELSE IF j \in head THEN RI(0) ELSE Uninit)
          ELSE IF ~row.forbidden THEN
              (IF engrid[j] >= epsilon_trans_ev \/ j \in tail THEN oscform(j)
               ELSE IF j \in head THEN RI(0) ELSE Uninit)
          ELSE
              (IF j \in tail \/ j \in head THEN RI(0) ELSE Uninit)]

(***************************************************************************)
(* sfmatrix_add_excitation: the writes of the transitions k .. of one ion, *)
(* and for one transition the writes of the rows i .. npts-1.              *)
(***************************************************************************)
\* a variant that leaves the grid spacing out of the term
vec_xs_excitation_nnlevel(nnlevel, deltaen, xs) == RMul(nnlevel, xs)

\* one entry of nnlevel * deltaen * get_xs_excitation_vector(engrid, row)
vec_xs_excitation_nnlevel_deltae(nnlevel, deltaen, xs) ==
    RMul(RMul(nnlevel, RI(deltaen)), xs)

RECURSIVE ExcitationRows(_, _, _)
ExcitationRows(engrid, row, i) ==
    IF i > Npts(engrid) - 1 THEN <<>>
    ELSE
    LET npts == Npts(engrid)
        deltaen == Deltaen(engrid)
        nnlevel == row.lower_pop
        xsvec == get_xs_excitation_vector(engrid, row)
        vec == [j \in 0 .. npts - 1 |->
                   vec_xs_excitation_nnlevel_deltae(nnlevel, deltaen, xsvec[j])]
        stopindex == i + CeilDiv(row.epsilon_trans_ev, deltaen)
        cols == PySlice(i, stopindex - i + 1, npts)
        colseq == [k \in 1 .. Cardinality(cols) |->
                      Write(i, i + k - 1, "exc", row.index, vec[i + k - 1],
                            RI(0), RI(0))]
    IN (IF stopindex < npts - 1 THEN colseq ELSE <<>>)
       \o ExcitationRows(engrid, row, i + 1)

RECURSIVE sfmatrix_add_excitation(_, _, _, _)
sfmatrix_add_excitation(engrid, dftransitions_ion, nnion, k) ==
    IF k > Len(dftransitions_ion) THEN <<>>
    ELSE (IF dftransitions_ion[k].epsilon_trans_ev >= engrid[0]
          THEN ExcitationRows(engrid, dftransitions_ion[k], 0)
          ELSE <<>>)
         \o sfmatrix_add_excitation(engrid, dftransitions_ion, nnion, k + 1)

(***************************************************************************)
(* scipy.linalg.lu_factor and lu_solve.  lu_factor refuses a matrix with a *)
(* non-finite entry (check_finite) and otherwise factorises with partial   *)
(* pivoting; an exactly zero pivot only raises a warning, and the          *)
(* substitution of lu_solve then divides by it.                            *)
(***************************************************************************)
AllFinite(vec) == \A i \in DOMAIN vec : IsFinite(vec[i])

MatrixFinite(m) == \A i \in DOMAIN m : AllFinite(m[i])

RAbs(x) == IF x.n < 0 THEN RNeg(x) ELSE x

\* the first row at or below k with the largest |m[r][k]|
PivotRow(m, k, npts) ==
    CHOOSE p \in k .. npts - 1 :
        /\ \A r \in k .. npts - 1 : RLe(RAbs(m[r][k]), RAbs(m[p][k]))
        /\ \A r \in k .. p - 1 : RLt(RAbs(m[r][k]), RAbs(m[p][k]))

Swap(f, a, b) == [f EXCEPT ![a] = f[b], ![b] = f[a]]

\* Gaussian elimination of columns k .. npts-1 on the pair (matrix, vector)
RECURSIVE Eliminate(_, _, _, _)
Eliminate(m, b, k, npts) ==
    IF k > npts - 1 THEN [m |-> m, b |-> b]
    ELSE
    LET p == PivotRow(m, k, npts)
        m1 == Swap(m, k, p)
        b1 == Swap(b, k, p)
        l(r) == RDiv(m1[r][k], m1[k][k])
        m2 == [r \in 0 .. npts - 1 |->
                 IF r > k /\ m1[k][k].n # 0
                 THEN [c \in 0 .. npts - 1 |->
                          IF c = k THEN RI(0)
                          ELSE RSub(m1[r][c], RMul(l(r), m1[k][c]))]
                 ELSE m1[r]]
        b2 == [r \in 0 .. npts - 1 |->
                 IF r > k /\ m1[k][k].n # 0
                 THEN RSub(b1[r], RMul(l(r), b1[k]))
                 ELSE b1[r]]
    IN Eliminate(m2, b2, k + 1, npts)

\* back substitution of rows i, i-1, .. 0; x holds the rows below i
RECURSIVE BackSubstitute(_, _, _, _, _)
BackSubstitute(u, b, x, i, npts) ==
    IF i < 0 THEN x
    ELSE
    LET acc == RSum([j \in i + 1 .. npts - 1 |-> RMul(u[i][j], x[j])], i + 1, npts - 1)
        xi == RDiv(RSub(b[i], acc), u[i][i])
    IN BackSubstitute(u, b, [x EXCEPT ![i] = xi], i - 1, npts)

lu_solve(sfmatrix, constvec) ==
    LET npts == Cardinality(DOMAIN constvec)
        lu == Eliminate(sfmatrix, constvec, 0, npts)
    IN IF ~MatrixFinite(sfmatrix) \/ ~AllFinite(constvec)
       THEN [err |-> "ValueError", x |-> constvec]
       ELSE [err |-> "",
             x |-> BackSubstitute(lu.m, lu.b, [i \in 0 .. npts - 1 |-> RI(0)],
                                  npts - 1, npts)]

\* a singular operator: the factorisation meets an exactly zero pivot
Singular(sfmatrix) ==
    LET npts == Cardinality(DOMAIN sfmatrix)
        lu == Eliminate(sfmatrix, [i \in 0 .. npts - 1 |-> RI(0)], 0, npts)
    IN MatrixFinite(sfmatrix) /\ \E k \in 0 .. npts - 1 : lu.m[k][k] = RI(0)

(***************************************************************************)
(* The tables.  ions is a sequence of <<Z, ionstage>>, ionpopdict maps an  *)
(* ion to its density, dfcollion is the sequence of the shell rows         *)
(* [index, Z, ionstage, ionpot_ev, A], and adata maps an ion to its        *)
(* transition rows [index, lower, A, collstr, forbidden, epsilon_trans_ev, *)
(* lower_g, upper_g, lower_pop] (the level energies, statistical weights   *)
(* and populations already looked up).                                     *)
(***************************************************************************)
get_nnetot(ions, ionpopdict) ==
    RSum([k \in 1 .. Len(ions) |-> RMul(RI(ions[k][1]), ionpopdict[ions[k]])],
         1, Len(ions))

\* dfcollion.query('Z == @Z and ionstage == @ionstage')
dfcollion_thision(dfcollion, Z, ionstage) ==
    SelectSeq(dfcollion, LAMBDA shell : shell.Z = Z /\ shell.ionstage = ionstage)

\* the transitions of an ion that solve_spencerfano keeps (lines 925-936)
topgmlevel == 4

get_dftransitions(adata, ion, engrid) ==
    LET lowlying == SelectSeq(adata[ion], LAMBDA row : row.lower <= topgmlevel)
    IN IF lowlying = <<>> THEN <<>>
       ELSE SelectSeq(lowlying,
                LAMBDA row : /\ (row.collstr >= 0 \/ ~row.forbidden)
                             /\ row.epsilon_trans_ev >= engrid[0])

\* the shells k .. of one ion (the loop of lines 912-914)
RECURSIVE AddShells(_, _, _, _)
AddShells(engrid, nnion, shells, k) ==
    IF k > Len(shells) THEN [err |-> "", writes |-> <<>>]
    ELSE IF ~(shells[k].ionpot_ev >= engrid[0])
         THEN [err |-> "AssertionError", writes |-> <<>>]
    ELSE With(sfmatrix_add_ionization_shell(engrid, nnion, shells[k]), LAMBDA r :
         IF r.err # "" THEN r
         ELSE LET rest == AddShells(engrid, nnion, shells, k + 1)
              IN [err |-> rest.err, writes |-> r.writes \o rest.writes])

\* the ions k .. (the loop of lines 906-944)
RECURSIVE AddIons(_, _, _, _, _, _, _)
AddIons(ions, ionpopdict, adata, engrid, dfcollion, noexcitation, k) ==
    IF k > Len(ions) THEN [err |-> "", writes |-> <<>>]
    ELSE
    LET Z == ions[k][1]
        ionstage == ions[k][2]
        nnion == ionpopdict[ions[k]]
        exc == IF noexcitation THEN <<>>
               ELSE sfmatrix_add_excitation(
                        engrid, get_dftransitions(adata, ions[k], engrid), nnion, 1)
    IN With(AddShells(engrid, nnion, dfcollion_thision(dfcollion, Z, ionstage), 1),
            LAMBDA sh :
       IF sh.err # "" THEN sh
       ELSE LET rest == AddIons(ions, ionpopdict, adata, engrid, dfcollion,
                                noexcitation, k + 1)
            IN [err |-> rest.err, writes |-> sh.writes \o exc \o rest.writes])

\* the loss terms of the rows i .. (the loop of lines 897-899)
RECURSIVE AddLoss(_, _, _, _)
AddLoss(engrid, nne, nnetot, i) ==
    IF i > Npts(engrid) - 1 THEN [err |-> "", writes |-> <<>>]
    ELSE LET l == lossfunction(RI(engrid[i]), nne, nnetot, FALSE)
         IN IF l.err # "" THEN [err |-> l.err, writes |-> <<>>]
            ELSE LET rest == AddLoss(engrid, nne, nnetot, i + 1)
                 IN [err |-> rest.err,
                     writes |-> <<Write(i, i, "loss", 0, l.v, RI(0), RI(0))>>
                                \o rest.writes]

\* a variant that depends on the module-level cache
E_init_ev_cached(engrid, sourcevec) ==
    RAdd(RMul(RSum([i \in DOMAIN engrid |-> RMul(RI(engrid[i]), sourcevec[i])],
                   0, Npts(engrid) - 1),
              RI(Deltaen(engrid))),
         RI(Cardinality(DOMAIN N_e_cache)))

\* E_init_ev = np.dot(engrid, sourcevec) * deltaen
E_init_ev(engrid, sourcevec) ==
    RMul(RSum([i \in DOMAIN engrid |-> RMul(RI(engrid[i]), sourcevec[i])],
              0, Npts(engrid) - 1),
         RI(Deltaen(engrid)))

\* a variant that leaves out the division by the power of the source
Rescale_unnormalised(yvec_reference, deposition_density_ev, E_init) ==
    [i \in DOMAIN yvec_reference |-> RMul(yvec_reference[i], deposition_density_ev)]

\* yvec = yvec_reference * deposition_density_ev / E_init_ev
Rescale(yvec_reference, deposition_density_ev, E_init) ==
    [i \in DOMAIN yvec_reference |->
        RDiv(RMul(yvec_reference[i], deposition_density_ev), E_init)]

\* a variant whose sum leaves out the source at the row's own energy
constvec_integral_above(engrid, sourcevec) ==
    [i \in DOMAIN engrid |->
        RSum([j \in i + 1 .. Npts(engrid) - 1 |->
                 RMul(sourcevec[j], RI(Deltaen(engrid)))],
             i + 1, Npts(engrid) - 1)]

\* constvec of the integral form (lines 891-894)
constvec_integral(engrid, sourcevec) ==
    [i \in DOMAIN engrid |->
        RSum([j \in i .. Npts(engrid) - 1 |-> RMul(sourcevec[j], RI(Deltaen(engrid)))],
             i, Npts(engrid) - 1)]

\* what a solver holds when it reaches the factorisation: an exception raised during
\* the assembly (err), or the matrix built by the writes and the right-hand side
Assembled(err, writes, npts, constvec, E_init) ==
    [err |-> err, writes |-> writes,
     sfmatrix |-> ApplyWrites(ZeroMatrix(npts), writes),
     constvec |-> constvec, E_init_ev |-> E_init]

\* the record a solver call ends with: an exception (err) or its return values
SolveResult(asm, deposition_density_ev, dftransitions) ==
    With(IF asm.err # "" THEN [err |-> asm.err, x |-> <<>>]
         ELSE lu_solve(asm.sfmatrix, asm.constvec), LAMBDA lusol :
       [err |-> lusol.err,
        writes |-> asm.writes,
        sfmatrix |-> asm.sfmatrix,
        constvec |-> asm.constvec,
        E_init_ev |-> asm.E_init_ev,
        yvec |-> IF lusol.err # "" THEN <<>>
                 ELSE Rescale(lusol.x, deposition_density_ev, asm.E_init_ev),
        dftransitions |-> IF lusol.err # "" THEN <<>> ELSE dftransitions])

\* solve_spencerfano up to the factorisation (lines 882-944)
assemble_spencerfano(ions, ionpopdict, adata, nne, engrid, sourcevec, dfcollion, noexcitation) ==
    With(AddLoss(engrid, nne, get_nnetot(ions, ionpopdict), 0), LAMBDA loss :
    With(IF loss.err # "" THEN [err |-> loss.err, writes |-> <<>>]
         ELSE AddIons(ions, ionpopdict, adata, engrid, dfcollion, noexcitation, 1),
         LAMBDA ionw :
       Assembled(ionw.err, loss.writes \o ionw.writes, Npts(engrid),
                 constvec_integral(engrid, sourcevec), E_init_ev(engrid, sourcevec))))

solve_spencerfano(ions, ionpopdict, adata, nne, deposition_density_ev, engrid, sourcevec, dfcollion, noexcitation) ==
    LET dftransitions ==
            IF noexcitation THEN <<>>
            ELSE [ion \in {ions[k] : k \in 1 .. Len(ions)} |->
                     get_dftransitions(adata, ion, engrid)]
    IN SolveResult(assemble_spencerfano(ions, ionpopdict, adata, nne, engrid,
                                        sourcevec, dfcollion, noexcitation),
                   deposition_density_ev, dftransitions)

(***************************************************************************)
(* differentialsfmatrix_add_ionization_shell.  The quadrature over epsilon *)
(* (eps_npts = 100 points in the code, line 640) is carried out with       *)
(* eps_npts points here: the exact rationals of a 100-term sum do not fit  *)
(* the model checker's integers.                                           *)
(***************************************************************************)
eps_npts == 2

\* the quadrature points j .. eps_npts-1 of row i (the loop of lines 643-647)
RECURSIVE DiffQuadrature(_, _, _, _, _, _)
DiffQuadrature(engrid, nnion, shell, i, enlambda, j) ==
    IF j > eps_npts - 1 THEN [err |-> "", writes |-> <<>>]
    ELSE
    LET ionpot_ev == shell.ionpot_ev
        J == get_J(shell.Z, shell.ionstage, ionpot_ev)
        ar_xs_array == get_arxs_array_shell(engrid, shell)
        en == engrid[i]
        epsilon_lower == RI(ionpot_ev)
        delta_eps == RDiv(RSub(enlambda, epsilon_lower), RI(eps_npts))
        prefactor ==
            RMul(RDiv(RDiv(nnion, J), atan(RDiv(Rat(en - ionpot_ev, 2), J))), delta_eps)
        epsilon == RAdd(epsilon_lower, RMul(RI(j), delta_eps))
        i_enpluseps == get_index(RAdd(RI(en), epsilon), engrid)
        x == RDiv(RSub(epsilon, RI(ionpot_ev)), J)
        val == RDiv(RMul(prefactor, ar_xs_array[i_enpluseps.v]),
                    RAdd(RI(1), RMul(x, x)))
    IN IF i_enpluseps.err # "" THEN [err |-> i_enpluseps.err, writes |-> <<>>]
       ELSE LET rest == DiffQuadrature(engrid, nnion, shell, i, enlambda, j + 1)
            IN [err |-> rest.err,
                writes |-> <<Write(i, i_enpluseps.v, "dquad", shell.index, RNeg(val),
                                   epsilon_lower, enlambda)>> \o rest.writes]

\* rows i .. npts-1 (the loop of lines 609-669)
RECURSIVE DiffShellRows(_, _, _, _)
DiffShellRows(engrid, nnion, shell, i) ==
    IF i > Npts(engrid) - 1 THEN [err |-> "", writes |-> <<>>]
    ELSE
    LET npts == Npts(engrid)
        delta_en == Deltaen(engrid)
        ionpot_ev == shell.ionpot_ev
        J == get_J(shell.Z, shell.ionstage, ionpot_ev)
        ar_xs_array == get_arxs_array_shell(engrid, shell)
        oneoveratangrid ==
            [j \in 0 .. npts - 1 |->
                RDiv(RI(1), atan(RDiv(Rat(engrid[j] - ionpot_ev, 2), J)))]
        en == engrid[i]
        epsilon_lower_a == RI(ionpot_ev)
        epsilon_upper == Rat(ionpot_ev + en, 2)
        int_eps_upper == atan(RDiv(RSub(epsilon_upper, RI(ionpot_ev)), J))
        P_int == RMul(RDiv(RI(1), atan(RDiv(Rat(en - ionpot_ev, 2), J))),
                      RSub(int_eps_upper, atan(RI(0))))
        self == IF RLt(epsilon_lower_a, epsilon_upper)
                THEN <<Write(i, i, "dself", shell.index,
                             RMul(RMul(nnion, ar_xs_array[i]), P_int),
                             epsilon_lower_a, epsilon_upper)>>
                ELSE <<>>
        enlambda == RMin(RI(Last(engrid) - en), RI(en + ionpot_ev))
        hastail == 2 * en + ionpot_ev < Last(engrid)
        i_endash_lower == IF hastail THEN get_index(RI(2 * en + ionpot_ev), engrid)
                          ELSE [err |-> "", v |-> npts]
        prefactor == RMul(RDiv(RDiv(nnion, J),
                               RAdd(RI(1), RMul(RDiv(RI(en), J), RDiv(RI(en), J)))),
                          RI(delta_en))
        tailcols == PySlice(i_endash_lower.v, npts, npts)
        tail == [k \in 1 .. Cardinality(tailcols) |->
                    LET j == i_endash_lower.v + k - 1
                    IN Write(i, j, "dtail", shell.index,
                             RNeg(RMul(RMul(prefactor, ar_xs_array[j]),
                                       oneoveratangrid[j])),
                             RI(en + ionpot_ev), RI(en + ionpot_ev))]
    IN With(IF RLt(RI(ionpot_ev), enlambda)
            THEN DiffQuadrature(engrid, nnion, shell, i, enlambda, 0)
            ELSE [err |-> "", writes |-> <<>>], LAMBDA quad :
       IF quad.err # "" THEN [err |-> quad.err, writes |-> self \o quad.writes]
       ELSE IF i_endash_lower.err # ""
            THEN [err |-> i_endash_lower.err, writes |-> self \o quad.writes]
       ELSE LET rest == DiffShellRows(engrid, nnion, shell, i + 1)
            IN [err |-> rest.err,
                writes |-> self \o quad.writes \o tail \o rest.writes])

differentialsfmatrix_add_ionization_shell(engrid, nnion, shell) ==
    LET xsstartindex ==
            IF shell.ionpot_ev <= engrid[0] THEN [err |-> "", v |-> 0]
            ELSE get_index(RI(shell.ionpot_ev), engrid)
    IN IF xsstartindex.err # "" THEN [err |-> xsstartindex.err, writes |-> <<>>]
       ELSE DiffShellRows(engrid, nnion, shell, xsstartindex.v)

\* the shells k .. of one ion (the loop of lines 862-864)
RECURSIVE DiffAddShells(_, _, _, _)
DiffAddShells(engrid, nnion, shells, k) ==
    IF k > Len(shells) THEN [err |-> "", writes |-> <<>>]
    ELSE IF ~(shells[k].ionpot_ev >= engrid[0])
         THEN [err |-> "AssertionError", writes |-> <<>>]
    ELSE With(differentialsfmatrix_add_ionization_shell(engrid, nnion, shells[k]),
              LAMBDA r :
         IF r.err # "" THEN r
         ELSE LET rest == DiffAddShells(engrid, nnion, shells, k + 1)
              IN [err |-> rest.err, writes |-> r.writes \o rest.writes])

\* variant: the differential form without its assertion
assert_noexcitation_skipped(noexcitation) == TRUE

\* assert noexcitation (line 866)
assert_noexcitation(noexcitation) == noexcitation

\* the ions k .. (the loop of lines 856-868)
RECURSIVE DiffAddIons(_, _, _, _, _, _)
DiffAddIons(ions, ionpopdict, engrid, dfcollion, noexcitation, k) ==
    IF k > Len(ions) THEN [err |-> "", writes |-> <<>>]
    ELSE
    With(DiffAddShells(engrid, ionpopdict[ions[k]],
                       dfcollion_thision(dfcollion, ions[k][1], ions[k][2]), 1),
         LAMBDA sh :
       IF sh.err # "" THEN sh
       ELSE IF ~assert_noexcitation(noexcitation)
       THEN [err |-> "AssertionError", writes |-> sh.writes]
       ELSE LET rest == DiffAddIons(ions, ionpopdict, engrid, dfcollion,
                                    noexcitation, k + 1)
            IN [err |-> rest.err, writes |-> sh.writes \o rest.writes])

\* the loss terms of the rows i .. (the loop of lines 837-852)
RECURSIVE DiffAddLoss(_, _, _, _)
DiffAddLoss(engrid, nne, nnetot, i) ==
    IF i > Npts(engrid) - 1 THEN [err |-> "", writes |-> <<>>]
    ELSE
    With(lossfunction(RI(engrid[i]), nne, nnetot, FALSE), LAMBDA here :
    With(lossfunction(RI(engrid[i] + Deltaen(engrid)), nne, nnetot, FALSE), LAMBDA next :
    LET deltaen == RI(Deltaen(engrid))
        diag == Write(i, i, "loss", 0, RDiv(here.v, deltaen), RI(0), RI(0))
        off == IF i + 1 < Npts(engrid)
               THEN <<Write(i, i + 1, "loss", 0, RNeg(RDiv(here.v, deltaen)),
                            RI(0), RI(0))>>
               ELSE <<>>
        slope == Write(i, i, "loss", 0,
                       RNeg(RDiv(RSub(next.v, here.v), deltaen)), RI(0), RI(0))
    IN IF next.err # "" THEN [err |-> next.err, writes |-> <<diag>> \o off]
       ELSE LET rest == DiffAddLoss(engrid, nne, nnetot, i + 1)
            IN [err |-> rest.err,
                writes |-> <<diag>> \o off \o <<slope>> \o rest.writes]))

\* lossfngrid (line 834): the first exception of lossfunction over the grid
lossfngrid_err(engrid, nne, nnetot) ==
    LET bad == {i \in DOMAIN engrid :
                   lossfunction(RI(engrid[i]), nne, nnetot, FALSE).err # ""}
    IN IF bad = {} THEN ""
       ELSE lossfunction(RI(engrid[CHOOSE i \in bad : \A k \in bad : i <= k]),
                         nne, nnetot, FALSE).err

\* solve_spencerfano_differentialform up to the factorisation (lines 820-869)
assemble_spencerfano_differentialform(ions, ionpopdict, adata, nne, engrid, sourcevec, dfcollion, noexcitation) ==
    With(lossfngrid_err(engrid, nne, get_nnetot(ions, ionpopdict)), LAMBDA gerr :
    With(IF gerr # "" THEN [err |-> gerr, writes |-> <<>>]
         ELSE DiffAddLoss(engrid, nne, get_nnetot(ions, ionpopdict), 0), LAMBDA loss :
    With(IF loss.err # "" THEN [err |-> loss.err, writes |-> <<>>]
         ELSE DiffAddIons(ions, ionpopdict, engrid, dfcollion, noexcitation, 1),
         LAMBDA ionw :
       Assembled(ionw.err, loss.writes \o ionw.writes, Npts(engrid), sourcevec,
                 E_init_ev(engrid, sourcevec)))))

solve_spencerfano_differentialform(ions, ionpopdict, adata, nne, deposition_density_ev, engrid, sourcevec, dfcollion, noexcitation) ==
    SolveResult(assemble_spencerfano_differentialform(
                    ions, ionpopdict, adata, nne, engrid, sourcevec, dfcollion,
                    noexcitation),
                deposition_density_ev, <<>>)

(***************************************************************************)
(* Psecondary: the density of the energy loss epsilon = e_s + ionpot_ev.   *)
(* An argument that is not given holds its default, -1.                    *)
(***************************************************************************)
\* a variant that takes epsilon for the energy of the secondary
e_s_as_epsilon(epsilon, ionpot_ev) == epsilon

\* e_s = epsilon - ionpot_ev (line 232)
e_s_of_epsilon(epsilon, ionpot_ev) == RSub(epsilon, ionpot_ev)

Psecondary(e_p, ionpot_ev, J, e_s_arg, epsilon_arg) ==
    LET e_s == IF RLt(e_s_arg, RI(0)) THEN e_s_of_epsilon(epsilon_arg, ionpot_ev)
               ELSE e_s_arg
        epsilon == IF RLt(epsilon_arg, RI(0)) THEN RAdd(e_s, ionpot_ev)
                   ELSE epsilon_arg
        x == RDiv(e_s, J)
    IN IF ~(RGe(e_s_arg, RI(0)) \/ RGe(epsilon_arg, RI(0)))
       THEN [err |-> "AssertionError", v |-> NaN, e_s |-> e_s_arg,
             epsilon |-> epsilon_arg]
       ELSE [err |-> "", e_s |-> e_s, epsilon |-> epsilon,
             v |-> RDiv(RDiv(RDiv(RI(1), J),
                             atan(RDiv(RDiv(RSub(e_p, ionpot_ev), RI(2)), J))),
                        RAdd(RI(1), RMul(x, x)))]

(***************************************************************************)
(* calculate_N_e on a cache miss: the value computed from the arguments of *)
(* the call.  The two integrals over endash take 1000 and 100 steps in the *)
(* code (lines 428 and 438) and endash_npts steps here, for the reason     *)
(* given at eps_npts.  np.arange(start, stop, step) is start + k * step    *)
(* for k = 0 .. npts-1 when step > 0 and fails when step = 0.              *)
(***************************************************************************)
endash_npts == 2

\* terms k .. endash_npts-1 of the integral from ionpot_ev to enlambda
RECURSIVE N_e_first(_, _, _, _, _, _)
N_e_first(energy_ev, engrid, shell, yvec, delta_endash, k) ==
    IF k > endash_npts - 1 THEN [err |-> "", v |-> RI(0)]
    ELSE
    LET ionpot_ev == RI(shell.ionpot_ev)
        J == get_J(shell.Z, shell.ionstage, shell.ionpot_ev)
        ar_xs_array == get_arxs_array_shell(engrid, shell)
        endash == RAdd(ionpot_ev, RMul(RI(k), delta_endash))
        i == get_index(RAdd(energy_ev, endash), engrid)
        P == Psecondary(RAdd(energy_ev, endash), ionpot_ev, J, RI(-1), endash)
        term == RMul(RMul(RMul(yvec[i.v], ar_xs_array[i.v]), P.v), delta_endash)
    IN IF i.err # "" THEN [err |-> i.err, v |-> NaN]
       ELSE IF P.err # "" THEN [err |-> P.err, v |-> NaN]
       ELSE LET rest == N_e_first(energy_ev, engrid, shell, yvec, delta_endash, k + 1)
            IN [err |-> rest.err, v |-> RAdd(term, rest.v)]

\* terms k .. endash_npts-1 of the integral from 2E + I up to E_max
RECURSIVE N_e_second(_, _, _, _, _, _)
N_e_second(energy_ev, engrid, shell, yvec, delta_endash, k) ==
    IF k > endash_npts - 1 THEN [err |-> "", v |-> RI(0)]
    ELSE
    LET ionpot_ev == RI(shell.ionpot_ev)
        J == get_J(shell.Z, shell.ionstage, shell.ionpot_ev)
        ar_xs_array == get_arxs_array_shell(engrid, shell)
        endash == RAdd(RAdd(RMul(RI(2), energy_ev), ionpot_ev),
                       RMul(RI(k), delta_endash))
        i == get_index(endash, engrid)
        P == Psecondary(endash, ionpot_ev, J, RI(-1), RAdd(energy_ev, ionpot_ev))
        term == RMul(RMul(RMul(yvec[i.v], ar_xs_array[i.v]), P.v), delta_endash)
    IN IF i.err # "" THEN [err |-> i.err, v |-> NaN]
       ELSE IF P.err # "" THEN [err |-> P.err, v |-> NaN]
       ELSE LET rest == N_e_second(energy_ev, engrid, shell, yvec, delta_endash, k + 1)
            IN [err |-> rest.err, v |-> RAdd(term, rest.v)]

\* N_e_ion of the shells k .. of one ion (the loop of lines 417-446)
RECURSIVE N_e_shells(_, _, _, _, _)
N_e_shells(energy_ev, engrid, shells, yvec, k) ==
    IF k > Len(shells) THEN [err |-> "", v |-> RI(0)]
    ELSE
    LET shell == shells[k]
        ionpot_ev == RI(shell.ionpot_ev)
        emax == RI(Last(engrid))
        enlambda == RMin(RSub(emax, energy_ev), RAdd(energy_ev, ionpot_ev))
        delta1 == RDiv(RSub(enlambda, ionpot_ev), RI(endash_npts))
        delta2 == RDiv(RSub(emax, RAdd(RMul(RI(2), energy_ev), ionpot_ev)),
                       RI(endash_npts))
    IN With(IF RGe(delta1, RI(0))
            THEN (IF delta1.n = 0 THEN [err |-> "ValueError", v |-> NaN]
                  ELSE N_e_first(energy_ev, engrid, shell, yvec, delta1, 0))
            ELSE [err |-> "", v |-> RI(0)], LAMBDA first :
       IF first.err # "" THEN first
       ELSE
       With(IF RGe(delta2, RI(0))
            THEN (IF delta2.n = 0 THEN [err |-> "ValueError", v |-> NaN]
                  ELSE N_e_second(energy_ev, engrid, shell, yvec, delta2, 0))
            ELSE [err |-> "", v |-> RI(0)], LAMBDA second :
       IF second.err # "" THEN second
       ELSE LET rest == N_e_shells(energy_ev, engrid, shells, yvec, k + 1)
            IN [err |-> rest.err, v |-> RAdd(RAdd(first.v, second.v), rest.v)]))

\* the ionisation part of N_e for the ions k .. (the loop of lines 412-448)
RECURSIVE N_e_ions(_, _, _, _, _, _, _)
N_e_ions(energy_ev, engrid, ions, ionpopdict, dfcollion, yvec, k) ==
    IF k > Len(ions) THEN [err |-> "", v |-> RI(0)]
    ELSE
    With(N_e_shells(energy_ev, engrid,
                    dfcollion_thision(dfcollion, ions[k][1], ions[k][2]), yvec, 1),
         LAMBDA N_e_ion :
       IF N_e_ion.err # "" THEN N_e_ion
       ELSE LET nnion == ionpopdict[ions[k]]
                rest == N_e_ions(energy_ev, engrid, ions, ionpopdict, dfcollion,
                                 yvec, k + 1)
            IN [err |-> rest.err, v |-> RAdd(RMul(nnion, N_e_ion.v), rest.v)])

\* the excitation part of N_e for the transitions k .. of one ion (lines 452-459)
RECURSIVE N_e_transitions(_, _, _, _, _)
N_e_transitions(energy_ev, engrid, rows, yvec, k) ==
    IF k > Len(rows) THEN [err |-> "", v |-> RI(0)]
    ELSE
    LET row == rows[k]
        i == get_index(RAdd(energy_ev, RI(row.epsilon_trans_ev)), engrid)
        xsvec == get_xs_excitation_vector(engrid, row)
        term == RMul(RMul(RMul(row.lower_pop, RI(row.epsilon_trans_ev)), xsvec[i.v]),
                     yvec[i.v])
        rest == N_e_transitions(energy_ev, engrid, rows, yvec, k + 1)
    IN IF ~(row.epsilon_trans_ev >= engrid[0]) THEN rest
       ELSE IF i.err # "" THEN [err |-> i.err, v |-> NaN]
       ELSE [err |-> rest.err, v |-> RAdd(term, rest.v)]

RECURSIVE N_e_excitation(_, _, _, _, _, _)
N_e_excitation(energy_ev, engrid, ions, dftransitions, yvec, k) ==
    IF k > Len(ions) THEN [err |-> "", v |-> RI(0)]
    ELSE
    With(N_e_transitions(energy_ev, engrid, dftransitions[ions[k]], yvec, 1),
         LAMBDA here :
       IF here.err # "" THEN here
       ELSE LET rest == N_e_excitation(energy_ev, engrid, ions, dftransitions,
                                       yvec, k + 1)
            IN [err |-> rest.err, v |-> RAdd(here.v, rest.v)])

N_e_computed(energy_ev, engrid, ions, ionpopdict, dfcollion, yvec, dftransitions, noexcitation) ==
    With(N_e_ions(energy_ev, engrid, ions, ionpopdict, dfcollion, yvec, 1),
         LAMBDA ion :
       IF ion.err # "" THEN ion
       ELSE
       With(IF noexcitation THEN [err |-> "", v |-> RI(0)]
            ELSE N_e_excitation(energy_ev, engrid, ions, dftransitions, yvec, 1),
            LAMBDA exc :
       IF exc.err # "" THEN exc
       ELSE [err |-> "", v |-> RAdd(ion.v, exc.v)]))

(***************************************************************************)
(* calculate_N_e with the module-level N_e_cache, a function from the      *)
(* energies asked so far to the values stored for them.  The result holds  *)
(* the value returned, the cache after the call and, for reference, own:   *)
(* the value that the arguments of this call give when nothing is cached.  *)
(***************************************************************************)
\* variant: a lookup that never finds the energy
in_N_e_cache_never(cache, energy_ev) == FALSE

\* if energy_ev in N_e_cache (line 401)
in_N_e_cache(cache, energy_ev) == energy_ev \in DOMAIN cache

calculate_N_e(cache, energy_ev, engrid, ions, ionpopdict, dfcollion, yvec, dftransitions, noexcitation) ==
    IF energy_ev = RI(0)
    THEN [err |-> "", v |-> RI(0), own |-> RI(0), cache |-> cache]
    ELSE
    With(N_e_computed(energy_ev, engrid, ions, ionpopdict, dfcollion, yvec,
                      dftransitions, noexcitation), LAMBDA N_e :
       IF in_N_e_cache(cache, energy_ev)
       THEN [err |-> "", v |-> cache[energy_ev],
             own |-> IF N_e.err = "" THEN N_e.v ELSE NaN, cache |-> cache]
       ELSE IF N_e.err # ""
       THEN [err |-> N_e.err, v |-> NaN, own |-> NaN, cache |-> cache]
       ELSE [err |-> "", v |-> N_e.v, own |-> N_e.v,
             cache |-> [e \in DOMAIN cache \cup {energy_ev} |->
                           IF e = energy_ev THEN N_e.v ELSE cache[e]]])

\* calculate_N_e for the energies ens[k], ens[k+1], ..: the calls made, in order,
\* the cache they leave and the sum of N_e * en_ev over them
RECURSIVE N_e_calls(_, _, _, _, _, _, _, _, _, _)
N_e_calls(cache, ens, k, engrid, ions, ionpopdict, dfcollion, yvec, dftransitions, noexcitation) ==
    IF k > Len(ens) THEN [err |-> "", calls |-> <<>>, cache |-> cache, sum |-> RI(0)]
    ELSE
    With(calculate_N_e(cache, ens[k], engrid, ions, ionpopdict, dfcollion, yvec,
                       dftransitions, noexcitation), LAMBDA c :
    LET call == [energy_ev |-> ens[k], v |-> c.v, own |-> c.own,
                 emin |-> engrid[0], emax |-> Last(engrid), npts |-> Npts(engrid)]
    IN IF c.err # ""
       THEN [err |-> c.err, calls |-> <<>>, cache |-> c.cache, sum |-> NaN]
       ELSE LET rest == N_e_calls(c.cache, ens, k + 1, engrid, ions, ionpopdict,
                                  dfcollion, yvec, dftransitions, noexcitation)
            IN [err |-> rest.err, calls |-> <<call>> \o rest.calls,
                cache |-> rest.cache,
                sum |-> RAdd(RMul(c.v, ens[k]), rest.sum)])

(***************************************************************************)
(* The energies below the grid: np.arange(0., E_0, E_0 / n).  n is 10 in   *)
(* calculate_frac_heating (line 483) and 20 in make_plot (line 746); the   *)
(* model takes low_npts and 2 * low_npts points.                           *)
(***************************************************************************)
low_npts == 2

arange_low(E_0, n) == [k \in 1 .. n |-> Rat((k - 1) * E_0, n)]

Reversed(seq) == [k \in 1 .. Len(seq) |-> seq[Len(seq) + 1 - k]]

(***************************************************************************)
(* calculate_frac_heating (Kozma & Fransson equation 8).                   *)
(***************************************************************************)
calculate_frac_heating(cache, engrid, ions, ionpopdict, dfcollion, dftransitions, yvec, nne, nnetot, deposition_density_ev, noexcitation) ==
    LET npts == Npts(engrid)
        E_0 == engrid[0]
        deltaen == RI(Deltaen(engrid))
        loss(i) == lossfunction(RI(engrid[i]), nne, nnetot, FALSE)
        lossbad == \E i \in DOMAIN engrid : loss(i).err # ""
        trapezium ==
            RSum([i \in DOMAIN engrid |->
                    RDiv(RMul(RMul(RMul(IF i = 0 \/ i = npts - 1 THEN Rat(1, 2)
                                        ELSE RI(1),
                                        loss(i).v), yvec[i]), deltaen),
                         deposition_density_ev)],
                 0, npts - 1)
        edge == RDiv(RMul(RMul(RI(E_0), yvec[0]), loss(0).v), deposition_density_ev)
        delta_en == Rat(E_0, low_npts)
    IN IF lossbad
       THEN [err |-> "AssertionError", v |-> NaN, cache |-> cache, calls |-> <<>>]
       ELSE
       With(N_e_calls(cache, arange_low(E_0, low_npts), 1, engrid, ions, ionpopdict,
                      dfcollion, yvec, dftransitions, noexcitation), LAMBDA low :
       IF low.err # ""
       THEN [err |-> low.err, v |-> NaN, cache |-> low.cache, calls |-> low.calls]
       ELSE [err |-> "",
             v |-> RAdd(RAdd(trapezium, edge),
                        RDiv(RMul(low.sum, delta_en), deposition_density_ev)),
             cache |-> low.cache, calls |-> low.calls])

(***************************************************************************)
(* make_plot, as far as it touches the state of the program: the           *)
(* calculate_N_e calls of lines 754-756, from the highest energy down.     *)
(***************************************************************************)
make_plot(cache, engrid, yvec, ions, ionpopdict, dfcollion, dftransitions, noexcitation) ==
    N_e_calls(cache, Reversed(arange_low(engrid[0], 2 * low_npts)), 1, engrid, ions,
              ionpopdict, dfcollion, yvec, dftransitions, noexcitation)

(***************************************************************************)
(* analyse_ntspectrum.  What it prints is kept as the sequence stdout of   *)
(* the lines that matter here; shelllog and exclog record, for every       *)
(* fraction computed, the value computed (raw) and the value accumulated   *)
(* (used).  The work function diagnostics of lines 1051-1060 only print,   *)
(* from the binding energy data file, and are left out.                    *)
(***************************************************************************)
dot(a, b) == RSum([i \in DOMAIN a |-> RMul(a[i], b[i])], 0, Cardinality(DOMAIN a) - 1)

\* a variant that accumulates the fraction whatever its value
clamp_ionization_shell_kept(frac_ionization_shell) == frac_ionization_shell

\* if frac_ionization_shell > 1: frac_ionization_shell = 0.
clamp_ionization_shell(frac_ionization_shell) ==
    IF RGt(frac_ionization_shell, RI(1)) THEN RI(0) ELSE frac_ionization_shell

\* if frac_excitation_ion[(Z, ionstage)] > 1: frac_excitation_ion[(Z, ionstage)] = 0.
clamp_excitation_ion(frac_excitation_ion) ==
    IF RGt(frac_excitation_ion, RI(1)) THEN RI(0) ELSE frac_excitation_ion

calculate_nt_frac_excitation(engrid, dftransitions_ion, yvec, deposition_density_ev) ==
    LET deltaen == Deltaen(engrid)
        term(k) == LET row == dftransitions_ion[k]
                       xs == get_xs_excitation_vector(engrid, row)
                   IN [j \in DOMAIN engrid |->
                          RMul(RMul(row.lower_pop, RI(row.epsilon_trans_ev)), xs[j])]
        xs_excitation_vec_sum_alltrans ==
            [j \in DOMAIN engrid |->
                RSum([k \in 1 .. Len(dftransitions_ion) |-> term(k)[j]],
                     1, Len(dftransitions_ion))]
    IN RDiv(RMul(dot(xs_excitation_vec_sum_alltrans, yvec), RI(deltaen)),
            deposition_density_ev)

\* the shells k .. of one ion (the loop of lines 1003-1024)
RECURSIVE AnalyseShells(_, _, _, _, _, _, _)
AnalyseShells(engrid, yvec, ion, nnion, deposition_density_ev, shells, k) ==
    IF k > Len(shells)
    THEN [err |-> "", sum |-> RI(0), shelllog |-> <<>>, stdout |-> <<>>]
    ELSE
    With(get_index(RI(shells[k].ionpot_ev), engrid), LAMBDA xsstartindex :
    With(RDiv(RMul(RMul(RMul(nnion, RI(shells[k].ionpot_ev)),
                        dot(yvec, get_arxs_array_shell(engrid, shells[k]))),
                   RI(Deltaen(engrid))),
              deposition_density_ev), LAMBDA frac_ionization_shell :
    LET shell == shells[k]
        used == clamp_ionization_shell(frac_ionization_shell)
        entry == [ion |-> ion, shell |-> shell.index, raw |-> frac_ionization_shell,
                  used |-> used]
        msg == IF used # frac_ionization_shell
               THEN <<[text |-> "Ignoring frac_ionization_shell", ion |-> ion,
                       shell |-> shell.index]>>
               ELSE <<>>
    IN IF xsstartindex.err # ""
       THEN [err |-> xsstartindex.err, sum |-> NaN, shelllog |-> <<>>, stdout |-> <<>>]
       ELSE IF xsstartindex.v + 1 > Npts(engrid) - 1
       THEN [err |-> "IndexError", sum |-> NaN, shelllog |-> <<entry>>, stdout |-> msg]
       ELSE LET rest == AnalyseShells(engrid, yvec, ion, nnion, deposition_density_ev,
                                      shells, k + 1)
            IN [err |-> rest.err, sum |-> RAdd(used, rest.sum),
                shelllog |-> <<entry>> \o rest.shelllog,
                stdout |-> msg \o rest.stdout]))

\* pandas' ionpot_ev.min(): nan for an ion with no shell
ionpot_valence(shells) ==
    IF shells = <<>> THEN NaN
    ELSE RI(CHOOSE m \in {shells[k].ionpot_ev : k \in 1 .. Len(shells)} :
               \A k \in 1 .. Len(shells) : m <= shells[k].ionpot_ev)

\* the ions k .. (the loop of lines 986-1062)
RECURSIVE AnalyseIons(_, _, _, _, _, _, _, _, _, _)
AnalyseIons(engrid, yvec, ions, ionpopdict, nntot, deposition_density_ev, dfcollion, dftransitions, noexcitation, k) ==
    IF k > Len(ions)
    THEN [err |-> "", perion |-> <<>>, shelllog |-> <<>>, exclog |-> <<>>, stdout |-> <<>>]
    ELSE
    LET ion == ions[k]
        nnion == ionpopdict[ion]
        X_ion == RDiv(nnion, nntot)
        shells == dfcollion_thision(dfcollion, ion[1], ion[2])
    IN IF nntot = RI(0)
       THEN [err |-> "ZeroDivisionError", perion |-> <<>>, shelllog |-> <<>>,
             exclog |-> <<>>, stdout |-> <<>>]
       ELSE
    With(AnalyseShells(engrid, yvec, ion, nnion, deposition_density_ev, shells, 1),
         LAMBDA sh :
       IF sh.err # ""
       THEN [err |-> sh.err, perion |-> <<>>, shelllog |-> sh.shelllog,
             exclog |-> <<>>, stdout |-> sh.stdout]
       ELSE
    With(IF noexcitation THEN RI(0)
         ELSE calculate_nt_frac_excitation(engrid, dftransitions[ion], yvec,
                                           deposition_density_ev), LAMBDA rawexc :
    LET eff_ionpot == RDiv(RMul(ionpot_valence(shells), X_ion), sh.sum)
        usedexc == IF noexcitation THEN RI(0) ELSE clamp_excitation_ion(rawexc)
        exclog == IF noexcitation THEN <<>>
                  ELSE <<[ion |-> ion, raw |-> rawexc, used |-> usedexc]>>
        excmsg == IF ~noexcitation /\ usedexc # rawexc
                  THEN <<[text |-> "Ignoring frac_excitation_ion", ion |-> ion,
                          shell |-> 0]>>
                  ELSE <<>>
        gamma_nt == RDiv(RDiv(deposition_density_ev, nntot), eff_ionpot)
        this == [ion |-> ion, frac_ionization |-> sh.sum, frac_excitation |-> usedexc,
                 gamma_nt |-> gamma_nt]
    IN LET rest == AnalyseIons(engrid, yvec, ions, ionpopdict, nntot,
                                    deposition_density_ev, dfcollion, dftransitions,
                                    noexcitation, k + 1)
       IN [err |-> rest.err,
           perion |-> <<this>> \o rest.perion,
           shelllog |-> sh.shelllog \o rest.shelllog,
           exclog |-> exclog \o rest.exclog,
           stdout |-> sh.stdout \o excmsg \o rest.stdout]))

\* get_nntot and get_Zbar: Zbar divides by the sum of the populations
get_nntot(ions, ionpopdict) ==
    RSum([k \in 1 .. Len(ions) |-> ionpopdict[ions[k]]], 1, Len(ions))

get_Zbar(ions, ionpopdict) ==
    IF ions # <<>> /\ get_nntot(ions, ionpopdict) = RI(0)
    THEN [err |-> "ZeroDivisionError", v |-> NaN]
    ELSE [err |-> "",
          v |-> RSum([k \in 1 .. Len(ions) |->
                        RDiv(RMul(RI(ions[k][1]), ionpopdict[ions[k]]),
                             get_nntot(ions, ionpopdict))], 1, Len(ions))]

analyse_ntspectrum(cache, engrid, yvec, ions, ionpopdict, nntot, nne, deposition_density_ev, dfcollion, dftransitions, noexcitation) ==
    With(IF get_Zbar(ions, ionpopdict).err # ""
         THEN [err |-> get_Zbar(ions, ionpopdict).err, perion |-> <<>>,
               shelllog |-> <<>>, exclog |-> <<>>, stdout |-> <<>>]
         ELSE AnalyseIons(engrid, yvec, ions, ionpopdict, nntot, deposition_density_ev,
                          dfcollion, dftransitions, noexcitation, 1), LAMBDA r :
    With(IF r.err # "" THEN [err |-> r.err, v |-> NaN, cache |-> cache, calls |-> <<>>]
         ELSE calculate_frac_heating(cache, engrid, ions, ionpopdict, dfcollion,
                                     dftransitions, yvec, nne,
                                     get_nnetot(ions, ionpopdict),
                                     deposition_density_ev, noexcitation), LAMBDA heat :
    LET n == Len(r.perion)
        ionset == {r.perion[k].ion : k \in 1 .. n}
        entryof(ion) == r.perion[CHOOSE k \in 1 .. n : r.perion[k].ion = ion]
    IN [err |-> heat.err,
        returned |-> heat.err = "",
        frac_excitation |->
            RSum([k \in 1 .. n |-> r.perion[k].frac_excitation], 1, n),
        frac_ionization |->
            RSum([k \in 1 .. n |-> r.perion[k].frac_ionization], 1, n),
        frac_excitation_ion |-> [ion \in ionset |-> entryof(ion).frac_excitation],
        frac_ionization_ion |-> [ion \in ionset |-> entryof(ion).frac_ionization],
        gamma_nt |-> [ion \in ionset |-> entryof(ion).gamma_nt],
        frac_heating |-> heat.v,
        shelllog |-> r.shelllog,
        exclog |-> r.exclog,
        stdout |-> r.stdout,
        calls |-> heat.calls,
        cache |-> heat.cache]))

(***************************************************************************)
(* The data the model runs on.  The shell table and the atomic data are    *)
(* small tables in the format of collion.txt and of at.get_levels; the     *)
(* energies are whole numbers of eV.                                       *)
(***************************************************************************)
Fe == <<26, 2>>

Ni == <<28, 2>>

Shell(index, ion, ionpot_ev, A) ==
    [index |-> index, Z |-> ion[1], ionstage |-> ion[2], ionpot_ev |-> ionpot_ev, A |-> A]

collion_txt == <<Shell(1, Fe, 3, 1), Shell(2, Fe, 4, 2), Shell(3, Ni, 3, 1)>>

\* a table with a deeper shell
collion_deep == <<Shell(1, Fe, 3, 1), Shell(2, Fe, 7, 2), Shell(3, Ni, 4, 1)>>

\* a table whose two Fe shells have the same cross section coefficient
collion_even == <<Shell(1, Fe, 3, 1), Shell(2, Fe, 4, 1), Shell(3, Ni, 3, 1)>>

\* a table with a shell whose threshold lies above the last point of the grid [2, 8]
collion_high == <<Shell(1, Fe, 3, 1), Shell(2, Fe, 9, 1), Shell(3, Ni, 3, 1)>>

\* a table whose first shell has a cross section five times as large
collion_strong == <<Shell(1, Fe, 3, 5), Shell(2, Fe, 4, 1), Shell(3, Ni, 3, 1)>>

Transition(index, lower, A, collstr, forbidden, epsilon_trans_ev, lower_pop) ==
    [index |-> index, lower |-> lower, A |-> A, collstr |-> collstr,
     forbidden |-> forbidden, epsilon_trans_ev |-> epsilon_trans_ev,
     lower_g |-> 1, upper_g |-> 2, lower_pop |-> lower_pop]

levels_txt ==
    [ion \in {Fe, Ni} |->
        IF ion = Fe
        THEN <<Transition(1, 0, 1, 1, FALSE, 2, RI(1)),
               Transition(2, 1, 1, -1, FALSE, 3, RI(1)),
               Transition(3, 5, 1, 1, FALSE, 2, RI(1))>>
        ELSE <<Transition(4, 0, 1, -1, TRUE, 2, RI(1)),
               Transition(5, 0, 2, 2, TRUE, 4, Rat(1, 2))>>]

\* np.linspace(emin, emax, num=npts, endpoint=True), for a whole-number spacing
np_linspace(emin, emax, npts) == linspace(emin, (emax - emin) \div (npts - 1), npts)

\* the source that main builds (lines 1706-1713); math.ceil(npts * 0.03) is 1 up to
\* 33 points
main_sourcevec(engrid) ==
    LET npts == Npts(engrid)
        source_spread_pts == CeilDiv(npts * 3, 100)
    IN [s \in 0 .. npts - 1 |->
          IF s < npts - source_spread_pts THEN RI(0)
          ELSE Rat(1, Deltaen(engrid) * source_spread_pts)]

(***************************************************************************)
(* The arguments of a run: the command line (emin, emax, npts, vary,       *)
(* differentialform, makeplot, noexcitation) and the values that main sets *)
(* by hand or that a caller of the solvers passes (ions in scope,          *)
(* populations, source, densities, deposition).                            *)
(***************************************************************************)
Scaled(vec, c) == [i \in DOMAIN vec |-> RMul(c, vec[i])]

\* the sources of the first step: main's, and what other callers may pass
SourceKinds == {"main", "doubled", "zero", "flat"}

Source(kind, engrid) ==
    IF kind = "main" THEN main_sourcevec(engrid)
    ELSE IF kind = "doubled" THEN Scaled(main_sourcevec(engrid), RI(2))
    ELSE IF kind = "zero" THEN Scaled(main_sourcevec(engrid), RI(0))
    ELSE [i \in DOMAIN engrid |-> RI(1)]

Populations(fe, ni) == [ion \in {Fe, Ni} |-> IF ion = Fe THEN fe ELSE ni]

Arguments(cmd, flags, ions, ionpopdict, kind, nne, deposition_density_ev) ==
    [emin |-> cmd[1], emax |-> cmd[2], npts |-> cmd[3], vary |-> cmd[4],
     differentialform |-> flags[1], makeplot |-> flags[2], noexcitation |-> flags[3],
     engrid |-> np_linspace(cmd[1], cmd[2], cmd[3]),
     sourcevec |-> Source(kind, np_linspace(cmd[1], cmd[2], cmd[3])),
     ions |-> ions, ionpopdict |-> ionpopdict,
     adata |-> levels_txt, dfcollion |-> collion_txt,
     nne |-> nne, nntot |-> RI(2),
     deposition_density_ev |-> deposition_density_ev,
     ostat |-> FALSE]

Flags == BOOLEAN \X BOOLEAN \X BOOLEAN

\* the runs with the table collion_txt
PlainInputs ==
    {Arguments(cmd, flags, ions, Populations(p[1], p[2]), kind, RI(1), dep) :
        cmd \in {<<2, 8, 2, "">>, <<2, 8, 2, "emax">>, <<2, 8, 2, "emin">>,
                 <<2, 8, 2, "npts">>, <<2, 8, 3, "">>},
        flags \in Flags,
        ions \in {<<Fe>>, <<Fe, Ni>>},
        p \in {<<RI(1), RI(1)>>, <<RI(0), RI(0)>>},
        kind \in {"main", "zero", "flat"},
        dep \in {RI(1)}}

\* the runs with a strong shell in a thin population, where a shell's
\* fraction of the deposited energy comes out above one
StrongInputs ==
    {[Arguments(<<2, 8, 2, "">>, flags, ions, Populations(Rat(1, 4), RI(1)),
                kind, RI(1), dep)
      EXCEPT !.dfcollion = collion_strong] :
        flags \in Flags,
        ions \in {<<Fe>>, <<Fe, Ni>>},
        kind \in SourceKinds,
        dep \in {RI(1), RI(3)}}

\* the runs with two shells of like strength, whose fractions of the deposited
\* energy are each below one and together above one in the differential form
EvenInputs ==
    {[Arguments(<<2, 8, 2, "">>, <<differentialform, FALSE, noexcitation>>, <<Fe>>,
                Populations(RI(1), RI(1)), "main", RI(1), RI(1))
      EXCEPT !.dfcollion = collion_even] :
        differentialform \in BOOLEAN, noexcitation \in BOOLEAN}

\* the runs with a shell whose threshold lies between E_max and E_max + delta
HighInputs ==
    {[Arguments(<<2, 8, 2, "">>, <<differentialform, FALSE, noexcitation>>, <<Fe>>,
                Populations(RI(1), RI(1)), "main", RI(1), RI(1))
      EXCEPT !.dfcollion = collion_high] :
        differentialform \in BOOLEAN, noexcitation \in BOOLEAN}

\* the runs in which the second ion of the list has no population
AbsentInputs ==
    {Arguments(<<2, 8, 2, "">>, <<differentialform, FALSE, noexcitation>>, <<Fe, Ni>>,
               Populations(RI(1), RI(0)), "main", RI(1), RI(1)) :
        differentialform \in BOOLEAN, noexcitation \in BOOLEAN}

\* the ion list that main constructs: ionpopdict holds Fe II alone, and ions
\* are its keys of Z >= 26 (lines 1640, 1661-1668)
main_ions == <<Fe>>

\* the runs with -ostat: with the ion list of main, and with a list that
\* holds Ni II as well (ionpopdict edited to hold both)
OstatInputs ==
    {[Arguments(cmd, <<differentialform, FALSE, TRUE>>, ions,
                Populations(RI(1), RI(1)), "main", RI(1), RI(1))
      EXCEPT !.ostat = TRUE] :
        cmd \in {<<2, 8, 2, "">>, <<2, 8, 2, "emax">>},
        differentialform \in BOOLEAN,
        ions \in {main_ions, <<Fe, Ni>>}}

\* the runs of the whole program
Inputs ==
    PlainInputs \cup StrongInputs \cup EvenInputs \cup HighInputs \cup AbsentInputs
        \cup OstatInputs

\* the arguments on which the assembly of the matrix is examined by itself
AssemblyInputs ==
    {[Arguments(cmd, <<differentialform, FALSE, noexcitation>>, ions,
                Populations(p[1], p[2]), kind, RI(1), RI(1))
         EXCEPT !.dfcollion = dfcollion] :
        dfcollion \in {collion_txt, collion_deep},
        cmd \in {<<2, 8, 2, "">>, <<2, 8, 3, "">>, <<2, 11, 4, "">>, <<1, 7, 4, "">>,
                 <<4, 8, 2, "">>, <<2, 14, 5, "">>},
        differentialform \in BOOLEAN, noexcitation \in BOOLEAN,
        ions \in {<<Fe>>, <<Fe, Ni>>, <<Ni, Fe>>},
        p \in {<<RI(1), RI(1)>>, <<RI(2), RI(1)>>},
        kind \in SourceKinds}

\* stepcount = 20 if args.vary else 1 (line 1689); the model sweeps stepcount_vary steps
stepcount_vary == 2

stepcount(vary) == IF vary = "" THEN 1 ELSE stepcount_vary

\* the caller repeats a solve it has made at most MaxAgain times
MaxAgain == 1

\* the grid of a step (lines 1691-1703)
step_engrid(args, s) ==
    LET emin == IF args.vary = "emin" THEN args.emin * 2 ^ s ELSE args.emin
        emax == IF args.vary \in {"emax", "emax,npts"} THEN args.emax * 2 ^ s
                ELSE args.emax
        npts == IF args.vary \in {"npts", "emax,npts"} THEN args.npts * 2 ^ s
                ELSE args.npts
    IN np_linspace(emin, emax, npts)

None == [err |-> "none"]

\* read_estimators not called: no file opened
NotOpened == [file |-> 0]

\* the -ostat file: its lines, and the exception the writing raised
NoFile == [lines |-> <<>>, err |-> ""]

\* the header line written before the loop (lines 1685-1688)
ostat_header ==
    <<"emin", "emax", "npts", "FeII_frac_ionization", "FeII_frac_excitation",
      "FeII_gamma_nt", "NiII_frac_ionization", "NiII_frac_excitation", "NiII_gamma_nt">>

\* the ions whose table entries the row formatting reads (lines 1741-1744)
ostat_ions == <<Fe, Ni>>

\* the row of a step (lines 1741-1744): the f-string is evaluated before
\* anything is written, so a missing key leaves the file without the row
ostat_row(engrid, tables) ==
    IF \E n \in DOMAIN ostat_ions :
           \/ ostat_ions[n] \notin DOMAIN tables.frac_ionization_ion
           \/ ostat_ions[n] \notin DOMAIN tables.frac_excitation_ion
           \/ ostat_ions[n] \notin DOMAIN tables.gamma_nt
    THEN [err |-> "KeyError", row |-> <<>>]
    ELSE [err |-> "",
          row |-> <<engrid[0], engrid[Npts(engrid) - 1], Npts(engrid)>>
                  \o [k \in 1..(3 * Len(ostat_ions)) |->
                         LET ion == ostat_ions[(k + 2) \div 3]
                         IN CASE k % 3 = 1 -> tables.frac_ionization_ion[ion]
                              [] k % 3 = 2 -> tables.frac_excitation_ion[ion]
                              [] OTHER -> tables.gamma_nt[ion]]]

\* the values of a vector, of a solver result and of the calls and the cache are
\* all written down exactly (none is Huge)
ExactVec(vec) == \A i \in DOMAIN vec : vec[i] # Huge

ExactSolve(r) ==
    /\ \A k \in DOMAIN r.writes : r.writes[k].val # Huge
    /\ \A i \in DOMAIN r.sfmatrix : ExactVec(r.sfmatrix[i])
    /\ ExactVec(r.constvec)
    /\ r.E_init_ev # Huge
    /\ ExactVec(r.yvec)

ExactCalls(r) ==
    /\ \A k \in DOMAIN r.calls : r.calls[k].v # Huge /\ r.calls[k].own # Huge
    /\ ExactVec(r.cache)

ExactAnalysis(r) ==
    /\ ExactCalls(r)
    /\ r.frac_excitation # Huge /\ r.frac_ionization # Huge /\ r.frac_heating # Huge
    /\ ExactVec(r.gamma_nt)
    /\ \A k \in DOMAIN r.shelllog : r.shelllog[k].raw # Huge
    /\ \A k \in DOMAIN r.exclog : r.exclog[k].raw # Huge

Init ==
    /\ inp \in Inputs
    /\ sol = None
    /\ ana = None
    /\ N_e_cache = <<>>
    /\ calls = <<>>
    /\ memo = {}
    /\ pc = "start"
    /\ step = 0
    /\ again = 0
    /\ fstat = IF inp.ostat THEN [lines |-> <<ostat_header>>, err |-> ""] ELSE NoFile
    /\ estimators = <<>>
    /\ estfile = NotOpened

\* what the caller keeps of a solver call
Solved(form, r) ==
    /\ ExactSolve(r)
    /\ sol' = [form |-> form, err |-> r.err, writes |-> r.writes,
               sfmatrix |-> r.sfmatrix, constvec |-> r.constvec,
               E_init_ev |-> r.E_init_ev, yvec |-> r.yvec,
               dftransitions |-> r.dftransitions]
    /\ memo' = IF r.err = ""
               THEN memo \cup {[form |-> form, args |-> inp, yvec |-> r.yvec]}
               ELSE memo
    /\ pc' = IF r.err = "" THEN "solved" ELSE "raised"
    /\ UNCHANGED <<inp, ana, N_e_cache, calls, step, again, fstat, estimators, estfile>>

SolveIntegral ==
    /\ pc = "start"
    /\ ~inp.differentialform
    /\ Solved("integral",
              solve_spencerfano(inp.ions, inp.ionpopdict, inp.adata, inp.nne,
                                inp.deposition_density_ev, inp.engrid, inp.sourcevec,
                                inp.dfcollion, inp.noexcitation))

SolveDifferential ==
    /\ pc = "start"
    /\ inp.differentialform
    /\ Solved("differential",
              solve_spencerfano_differentialform(
                  inp.ions, inp.ionpopdict, inp.adata, inp.nne,
                  inp.deposition_density_ev, inp.engrid, inp.sourcevec,
                  inp.dfcollion, inp.noexcitation))

MakePlot ==
    /\ pc = "solved"
    /\ inp.makeplot
    /\ \E r \in {make_plot(N_e_cache, inp.engrid, sol.yvec, inp.ions, inp.ionpopdict,
                            inp.dfcollion, sol.dftransitions, inp.noexcitation)} :
          /\ ExactCalls(r)
          /\ N_e_cache' = r.cache
          /\ calls' = r.calls
          /\ pc' = IF r.err = "" THEN "plotted" ELSE "raised"
    /\ UNCHANGED <<inp, sol, ana, memo, step, again, fstat, estimators, estfile>>

Analyse ==
    /\ \/ pc = "solved" /\ ~inp.makeplot
       \/ pc = "plotted"
    /\ \E r \in {analyse_ntspectrum(N_e_cache, inp.engrid, sol.yvec, inp.ions,
                                     inp.ionpopdict, inp.nntot, inp.nne,
                                     inp.deposition_density_ev, inp.dfcollion,
                                     sol.dftransitions, inp.noexcitation)} :
          /\ ExactAnalysis(r)
          /\ ana' = [err |-> r.err, frac_excitation |-> r.frac_excitation,
                     frac_ionization |-> r.frac_ionization,
                     frac_excitation_ion |-> r.frac_excitation_ion,
                     frac_ionization_ion |-> r.frac_ionization_ion,
                     gamma_nt |-> r.gamma_nt, frac_heating |-> r.frac_heating,
                     shelllog |-> r.shelllog, exclog |-> r.exclog,
                     stdout |-> r.stdout]
          /\ N_e_cache' = r.cache
          /\ calls' = r.calls
          /\ pc' = IF r.err = "" THEN "analysed" ELSE "raised"
    /\ UNCHANGED <<inp, sol, memo, step, again, fstat, estimators, estfile>>

\* the row that main appends to the -ostat file after the analysis of a step
\* (lines 1739-1744)
WriteStat ==
    /\ pc = "analysed"
    /\ inp.ostat
    /\ \E r \in {ostat_row(inp.engrid, ana)} :
          /\ fstat' = IF r.err = "" THEN [fstat EXCEPT !.lines = Append(@, r.row)]
                       ELSE [fstat EXCEPT !.err = r.err]
          /\ pc' = IF r.err = "" THEN "recorded" ELSE "raised"
    /\ UNCHANGED <<inp, sol, ana, N_e_cache, calls, memo, step, again, estimators, estfile>>

\* the next iteration of main's loop over step
NextStep ==
    /\ \/ pc = "analysed" /\ ~inp.ostat
       \/ pc = "recorded"
    /\ step + 1 < stepcount(inp.vary)
    /\ step' = step + 1
    /\ LET engrid == step_engrid(inp, step + 1)
       IN inp' = [inp EXCEPT !.engrid = engrid, !.sourcevec = main_sourcevec(engrid)]
    /\ pc' = "start"
    /\ UNCHANGED <<sol, ana, N_e_cache, calls, memo, again, fstat, estimators, estfile>>

\* the caller goes back to arguments it has solved for before
SolveAgain ==
    /\ pc = "analysed"
    /\ ~inp.ostat
    /\ again < MaxAgain
    /\ again' = again + 1
    /\ \E m \in memo : inp' = m.args
    /\ pc' = "start"
    /\ UNCHANGED <<sol, ana, N_e_cache, calls, memo, step, fstat, estimators, estfile>>

Next ==
    \/ SolveIntegral
    \/ SolveDifferential
    \/ MakePlot
    \/ Analyse
    \/ WriteStat
    \/ NextStep
    \/ SolveAgain

Spec == Init /\ [][Next]_vars

(***************************************************************************)
(* The assembly by itself: the solvers up to the factorisation, applied to *)
(* the arguments of AssemblyInputs.  sol then holds the matrix and the     *)
(* right-hand side that lu_factor and lu_solve would receive.              *)
(***************************************************************************)
InitAssembly ==
    /\ inp \in AssemblyInputs
    /\ sol = None
    /\ ana = None
    /\ N_e_cache = <<>>
    /\ calls = <<>>
    /\ memo = {}
    /\ pc = "start"
    /\ step = 0
    /\ again = 0
    /\ fstat = NoFile
    /\ estimators = <<>>
    /\ estfile = NotOpened

ExactAssembly(asm) ==
    /\ \A k \in DOMAIN asm.writes : asm.writes[k].val # Huge
    /\ \A i \in DOMAIN asm.sfmatrix : ExactVec(asm.sfmatrix[i])
    /\ ExactVec(asm.constvec)
    /\ asm.E_init_ev # Huge

AssembledAs(form, asm) ==
    /\ ExactAssembly(asm)
    /\ sol' = [form |-> form, err |-> asm.err, writes |-> asm.writes,
               sfmatrix |-> asm.sfmatrix, constvec |-> asm.constvec,
               E_init_ev |-> asm.E_init_ev, yvec |-> <<>>, dftransitions |-> <<>>]
    /\ pc' = "assembled"
    /\ UNCHANGED <<inp, ana, N_e_cache, calls, memo, step, again, fstat, estimators, estfile>>

AssembleIntegral ==
    /\ pc = "start"
    /\ ~inp.differentialform
    /\ AssembledAs("integral",
                   assemble_spencerfano(inp.ions, inp.ionpopdict, inp.adata, inp.nne,
                                        inp.engrid, inp.sourcevec, inp.dfcollion,
                                        inp.noexcitation))

AssembleDifferential ==
    /\ pc = "start"
    /\ inp.differentialform
    /\ AssembledAs("differential",
                   assemble_spencerfano_differentialform(
                       inp.ions, inp.ionpopdict, inp.adata, inp.nne, inp.engrid,
                       inp.sourcevec, inp.dfcollion, inp.noexcitation))

NextAssembly ==
    \/ AssembleIntegral
    \/ AssembleDifferential

SpecAssembly == InitAssembly /\ [][NextAssembly]_vars

(***************************************************************************)
(* Properties.  sol belongs to the arguments in inp from the moment a      *)
(* solver call or an assembly has ended until the caller moves on.         *)
(***************************************************************************)
Current == pc # "start"

ShellsInScope ==
    {inp.dfcollion[k] : k \in {k \in DOMAIN inp.dfcollion :
        \E n \in DOMAIN inp.ions :
            inp.ions[n] = <<inp.dfcollion[k].Z, inp.dfcollion[k].ionstage>>}}

WritesOf(kind, src, i) ==
    {k \in DOMAIN sol.writes :
        sol.writes[k].kind = kind /\ sol.writes[k].src = src /\ sol.writes[k].i = i}

\* the first column in which a shell has a cross section: the last grid point below
\* its threshold, or column 0
ThresholdColumn(shell) ==
    Max(0, Cardinality({j \in DOMAIN inp.engrid : inp.engrid[j] < shell.ionpot_ev}) - 1)

FoldColumns(shell, i) ==
    {j \in DOMAIN inp.engrid :
        /\ j >= Max(i, ThresholdColumn(shell))
        /\ inp.engrid[j] >= 2 * inp.engrid[i] + shell.ionpot_ev}

\* C1: in the integral-form assembly the fold-over correction of row i and of a shell
\* with potential I is subtracted once in each column j >= max(i, xsstartindex) with
\* E_j >= 2 E_i + I and in no other column; there is none when 2 E_i + I is at or
\* beyond E_max + delta
C1_FoldOverColumns ==
    (Current /\ sol.err = "" /\ sol.form = "integral") =>
        \A shell \in ShellsInScope : \A i \in DOMAIN inp.engrid :
            /\ {sol.writes[k].j : k \in WritesOf("fold", shell.index, i)}
                   = FoldColumns(shell, i)
            /\ Cardinality(WritesOf("fold", shell.index, i))
                   = Cardinality(FoldColumns(shell, i))
            /\ \A k \in WritesOf("fold", shell.index, i) :
                   RLe(sol.writes[k].val, RI(0))
            /\ (2 * inp.engrid[i] + shell.ionpot_ev
                    >= Last(inp.engrid) + Deltaen(inp.engrid)
                 => WritesOf("fold", shell.index, i) = {})

\* an assembly in which a shell whose threshold lies above the second grid point has
\* a fold-over term in the column with E_j = 2 E_i + I, and a row without any, and
\* in which some fold-over term takes a positive amount off the matrix
C1_Witness ==
    /\ Current /\ sol.err = "" /\ sol.form = "integral"
    /\ \E shell \in ShellsInScope :
          /\ ThresholdColumn(shell) > 0
          /\ \E i \in DOMAIN inp.engrid : \E k \in WritesOf("fold", shell.index, i) :
                inp.engrid[sol.writes[k].j] = 2 * inp.engrid[i] + shell.ionpot_ev
          /\ \E i \in DOMAIN inp.engrid :
                /\ WritesOf("main", shell.index, i) # {}
                /\ WritesOf("fold", shell.index, i) = {}
    /\ \E k \in DOMAIN sol.writes :
          sol.writes[k].kind = "fold" /\ RLt(sol.writes[k].val, RI(0))

\* C2: the assembled operator is upper triangular: no term is written to a column
\* j < i of row i, and every entry below the diagonal is zero, in both forms and
\* with or without excitation
C2_UpperTriangular ==
    Current =>
        /\ \A k \in DOMAIN sol.writes : sol.writes[k].j >= sol.writes[k].i
        /\ \A i \in DOMAIN sol.sfmatrix : \A j \in DOMAIN sol.sfmatrix :
               j < i => sol.sfmatrix[i][j] = RI(0)

\* an integral-form assembly with loss, ionisation and excitation terms, some of them
\* off the diagonal, in rows below the first
C2_Witness ==
    /\ Current /\ sol.err = "" /\ sol.form = "integral"
    /\ \E k \in DOMAIN sol.writes :
          sol.writes[k].kind = "exc" /\ sol.writes[k].val # RI(0)
    /\ \E k \in DOMAIN sol.writes :
          /\ sol.writes[k].kind = "main"
          /\ sol.writes[k].i > 0
          /\ sol.writes[k].j > sol.writes[k].i
    /\ \E i \in DOMAIN sol.sfmatrix : i > 1 /\ sol.sfmatrix[i][i] # RI(0)

\* C3: every arctangent difference that the integral-form assembly accumulates, of
\* the main and of the fold-over integral, has epsilon_lower <= epsilon_upper
C3_BoundsOrdered ==
    (Current /\ sol.form = "integral") =>
        \A k \in DOMAIN sol.writes :
            sol.writes[k].kind \in {"main", "fold"} =>
                RLe(sol.writes[k].epsilon_lower, sol.writes[k].epsilon_upper)

\* C4: the right-hand side is the cumulative tail sum of the source times delta in
\* the integral form and the source itself in the differential form
C4_RightHandSide ==
    Current =>
        LET n == Npts(inp.engrid)
            delta == RI(Deltaen(inp.engrid))
        IN IF sol.form = "integral"
           THEN /\ sol.constvec[n - 1] = RMul(inp.sourcevec[n - 1], delta)
                /\ \A i \in 0 .. n - 2 :
                       sol.constvec[i]
                           = RAdd(sol.constvec[i + 1], RMul(inp.sourcevec[i], delta))
           ELSE sol.constvec = inp.sourcevec

\* an integral-form assembly on four or more points whose source is not zero in
\* more than one place
C4_Witness ==
    /\ Current /\ sol.form = "integral" /\ Npts(inp.engrid) >= 4
    /\ \E i \in DOMAIN inp.engrid : \E j \in DOMAIN inp.engrid :
          /\ i < j
          /\ inp.sourcevec[i] # RI(0)
          /\ inp.sourcevec[j] # RI(0)
          /\ sol.constvec[i] # sol.constvec[j]

\* the orderings of a sequence
Orderings(seq) ==
    {[k \in DOMAIN seq |-> seq[p[k]]] :
        p \in {p \in [DOMAIN seq -> DOMAIN seq] :
                  \A a \in DOMAIN seq : \A b \in DOMAIN seq : p[a] = p[b] => a = b}}

\* the assembly of sol's form for the arguments in inp with another ion list and
\* shell table
AssemblyOf(ions, dfcollion) ==
    IF sol.form = "integral"
    THEN assemble_spencerfano(ions, inp.ionpopdict, inp.adata, inp.nne, inp.engrid,
                              inp.sourcevec, dfcollion, inp.noexcitation)
    ELSE assemble_spencerfano_differentialform(
             ions, inp.ionpopdict, inp.adata, inp.nne, inp.engrid, inp.sourcevec,
             dfcollion, inp.noexcitation)

SolveOf(form, args) ==
    IF form = "integral"
    THEN solve_spencerfano(args.ions, args.ionpopdict, args.adata, args.nne,
                           args.deposition_density_ev, args.engrid, args.sourcevec,
                           args.dfcollion, args.noexcitation)
    ELSE solve_spencerfano_differentialform(
             args.ions, args.ionpopdict, args.adata, args.nne,
             args.deposition_density_ev, args.engrid, args.sourcevec, args.dfcollion,
             args.noexcitation)

ScaleFactors == {RI(2), Rat(1, 3)}

\* C5: the returned spectrum corresponds to the caller's deposition rate: a source
\* multiplied by a positive constant gives the same spectrum, and a deposition
\* density multiplied by c gives c times the spectrum, in both forms
C5_DepositionScaling ==
    (Current /\ sol.err = "") =>
        \A c \in ScaleFactors :
            /\ With(SolveOf(sol.form,
                            [inp EXCEPT !.sourcevec = Scaled(inp.sourcevec, c)]),
                    LAMBDA r : ExactSolve(r) => r.err = "" /\ r.yvec = sol.yvec)
            /\ With(SolveOf(sol.form,
                            [inp EXCEPT !.deposition_density_ev =
                                            RMul(c, inp.deposition_density_ev)]),
                    LAMBDA r : ExactSolve(r) =>
                                   r.err = "" /\ r.yvec = Scaled(sol.yvec, c))

\* a solver call that returned a finite spectrum, not zero everywhere, for a source
\* whose power E_init_ev differs from the deposition density, and for which the
\* scaled calls are computed exactly
C5_Witness ==
    /\ Current /\ sol.err = ""
    /\ AllFinite(sol.yvec)
    /\ \E i \in DOMAIN sol.yvec : sol.yvec[i] # RI(0)
    /\ sol.E_init_ev # inp.deposition_density_ev
    /\ sol.E_init_ev # RI(1)
    /\ \A c \in ScaleFactors :
          /\ ExactSolve(SolveOf(sol.form,
                                [inp EXCEPT !.sourcevec = Scaled(inp.sourcevec, c)]))
          /\ ExactSolve(SolveOf(sol.form,
                                [inp EXCEPT !.deposition_density_ev =
                                                RMul(c, inp.deposition_density_ev)]))

\* C6: a singular operator or a source with E_init_ev = 0 makes the solver call end
\* in a failure, so that no spectrum is returned
C6_SingularFails ==
    (Current /\ (sol.E_init_ev = RI(0) \/ Singular(sol.sfmatrix))) => sol.err # ""

\* the entries of a log for one ion, and the sum of the values accumulated for them
EntriesOf(log, ion) == {k \in DOMAIN log : log[k].ion = ion}

RECURSIVE SumUsed(_, _)
SumUsed(log, ks) ==
    IF ks = {} THEN RI(0)
    ELSE LET k == CHOOSE k \in ks : \A m \in ks : m <= k
         IN RAdd(SumUsed(log, ks \ {k}), log[k].used)

Messages(text, ion, shell) ==
    {k \in DOMAIN ana.stdout :
        ana.stdout[k] = [text |-> text, ion |-> ion, shell |-> shell]}

C8_CachePrivate ==
    \A k \in DOMAIN calls : calls[k].v = calls[k].own

TransitionsInScope ==
    IF inp.noexcitation THEN {}
    ELSE UNION {{get_dftransitions(inp.adata, inp.ions[n], inp.engrid)[k] :
                    k \in DOMAIN get_dftransitions(inp.adata, inp.ions[n], inp.engrid)} :
                n \in DOMAIN inp.ions}

\* round(a / b) of Python, halves to the even neighbour, for b > 0
Round(a, b) ==
    LET q == a \div b
        r == a % b
    IN IF 2 * r < b THEN q
       ELSE IF 2 * r > b THEN q + 1
       ELSE IF q % 2 = 0 THEN q ELSE q + 1

\* the grid offset of a transition energy, rounded or rounded up
Offsets(row) ==
    {Round(row.epsilon_trans_ev, Deltaen(inp.engrid)),
     CeilDiv(row.epsilon_trans_ev, Deltaen(inp.engrid))}

ExcColumns(row, i) == {sol.writes[k].j : k \in WritesOf("exc", row.index, i)}

\* C11: for every transition and every grid row i, sfmatrix_add_excitation writes
\* the columns from i up to the grid offset of the transition energy above i when
\* that target index lies inside the grid, and no other entry
C11_ExcitationColumns ==
    (Current /\ sol.err = "" /\ sol.form = "integral") =>
        \A row \in TransitionsInScope : \A i \in DOMAIN inp.engrid :
            \E o \in Offsets(row) :
                /\ ExcColumns(row, i) \subseteq i .. i + o
                /\ i + o < Npts(inp.engrid) - 1 => ExcColumns(row, i) = i .. i + o
                /\ i + o > Npts(inp.engrid) - 1 => ExcColumns(row, i) = {}

ExcWrites == {k \in DOMAIN sol.writes : sol.writes[k].kind = "exc"}

\* the transition of an excitation write
TransitionOf(k) ==
    CHOOSE row \in TransitionsInScope : row.index = sol.writes[k].src

ioncharge_as_stage(ion_stage) == ion_stage

\* ioncharge = ion_stage - 1
ioncharge(ion_stage) == ion_stage - 1

Beyond4s == "Going beyond the 4s shell in NT calculation. Abort!"

\* one pass of the loop body: the occupancy after it and what it printed
place_electron(q, charge) ==
    LET put(k) == [q |-> [q EXCEPT ![k] = @ + 1], stdout |-> <<>>]
        full == [q |-> q, stdout |-> <<Beyond4s>>]
    IN IF q[0] < 2 THEN put(0)
       ELSE IF q[1] < 2 THEN put(1)
       ELSE IF q[2] < 2 THEN put(2)
       ELSE IF q[3] < 4 THEN put(3)
       ELSE IF q[4] < 2 THEN put(4)
       ELSE IF q[5] < 2 THEN put(5)
       ELSE IF q[6] < 4 THEN put(6)
       ELSE IF charge = 0
            THEN (IF q[9] < 2 THEN put(9)
                  ELSE IF q[7] < 4 THEN put(7)
                  ELSE IF q[8] < 6 THEN put(8)
                  ELSE full)
       ELSE IF charge = 1
            THEN (IF q[9] < 1 THEN put(9)
                  ELSE IF q[7] < 4 THEN put(7)
                  ELSE IF q[8] < 6 THEN put(8)
                  ELSE full)
       ELSE IF charge > 1
            THEN (IF q[7] < 4 THEN put(7)
                  ELSE IF q[8] < 6 THEN put(8)
                  ELSE full)
       ELSE [q |-> q, stdout |-> <<>>]

\* the passes electron_loop .. nbound - 1 of the loop, the first half of them and
\* then the second
RECURSIVE place_electrons(_, _, _, _)
place_electrons(q, charge, electron_loop, nbound) ==
    IF electron_loop >= nbound THEN [q |-> q, stdout |-> <<>>]
    ELSE IF electron_loop + 1 = nbound THEN place_electron(q, charge)
    ELSE Strict((electron_loop + nbound) \div 2, LAMBDA half :
         Strict(place_electrons(q, charge, electron_loop, half), LAMBDA first :
         Strict(place_electrons(first.q, charge, half, nbound), LAMBDA rest :
              [q |-> rest.q, stdout |-> first.stdout \o rest.stdout])))

get_electronoccupancy(atomic_number, ion_stage, nt_shells) ==
    place_electrons([k \in 0 .. nt_shells - 1 |-> 0], ioncharge(ion_stage), 0,
                    atomic_number - ioncharge(ion_stage))

(***************************************************************************)
(* The functions of the module called by themselves, each on arguments     *)
(* drawn from a small set: inp holds the call, sol what it returned.       *)
(***************************************************************************)
XsInputs ==
    {[fn |-> "get_xs_excitation_vector",
      engrid |-> np_linspace(cmd[1], cmd[2], cmd[3]),
      row |-> Transition(1, 0, 1, collstr, forbidden, epsilon_trans_ev, RI(1))] :
        cmd \in {<<2, 8, 3>>, <<4, 10, 4>>, <<6, 8, 3>>, <<5, 11, 3>>},
        collstr \in {-1, 0, 2},
        forbidden \in BOOLEAN,
        epsilon_trans_ev \in 1 .. 12}

\* the occupancy of the ten shells of binding_energies.txt
OccupancyInputs ==
    {[fn |-> "get_electronoccupancy", atomic_number |-> Z, ion_stage |-> ion_stage,
      nt_shells |-> 10] :
        Z \in 1 .. 33, ion_stage \in 1 .. 4}

\* Psecondary called with e_s = x, with epsilon = x + ionpot_ev, or with neither
PsecondaryInputs ==
    {[fn |-> "Psecondary", e_p |-> e_p, ionpot_ev |-> ionpot_ev, J |-> J,
      x |-> x, given |-> given] :
        e_p \in {RI(2), RI(3), RI(5), Rat(19, 2)},
        ionpot_ev \in {RI(3), Rat(7, 2)},
        J \in {RI(2), Rat(9, 5)},
        x \in {RI(0), Rat(1, 2), RI(1), RI(3)},
        given \in {"e_s", "epsilon", "neither"}}

\* lossfunction on both sides of the 14 eV threshold, for thin and dense plasmas
LossInputs ==
    {[fn |-> "lossfunction", energy_ev |-> energy_ev, nne_cgs |-> nne_cgs,
      nnetot_cgs |-> nnetot_cgs, use_nnetot |-> use_nnetot] :
        energy_ev \in {Rat(1, 2), RI(1), RI(2), RI(13), RI(14), Rat(141, 10), RI(15),
                       RI(20)},
        nne_cgs \in {Rat(1, 4), RI(1), RI(4), RI(9), RI(1000), RI(10000)},
        nnetot_cgs \in {RI(2), RI(3000)},
        use_nnetot \in BOOLEAN}

(***************************************************************************)
(* The sweep of main from the defaults of addargs.  A number m * 2^e is    *)
(* held as the pair of m and e: "x *= 2 ** step" moves e and leaves m      *)
(* alone, which is what it does to a float and to a Python int.  The grid  *)
(* np.linspace(start, stop, num) is held by its three arguments: its       *)
(* points are start + i * (stop - start) / (num - 1), so it begins at      *)
(* start, has num points, and rises exactly when start < stop.             *)
(***************************************************************************)
default_npts == 4096

default_emin == Rat(1, 10)

default_emax == 16000

\* stepcount = 20 if args.vary else 1 (line 1690)
stepcount_main == 20

Pow2(m, e) == [m |-> m, e |-> e]

TimesPow2(x, k) == Pow2(x.m, x.e + k)

\* a < b, both divided by 2^(a.e + b.e)
ScLt(a, b) == RLt(RDiv(a.m, RI(2 ^ b.e)), RDiv(b.m, RI(2 ^ a.e)))

\* the arguments of np.linspace in a step of the sweep (lines 1692-1704)
step_linspace(vary, k) ==
    LET emin == Pow2(default_emin, 0)
        emax == Pow2(RI(default_emax), 0)
        npts == Pow2(RI(default_npts), 0)
    IN [start |-> IF vary = "emin" THEN TimesPow2(emin, k) ELSE emin,
        stop |-> IF vary \in {"emax", "emax,npts"} THEN TimesPow2(emax, k)
                 ELSE emax,
        num |-> IF vary \in {"npts", "emax,npts"} THEN TimesPow2(npts, k)
                ELSE npts]

\* the steps of main: one without -vary, stepcount_main in each -vary mode
SweepInputs ==
    {[fn |-> "main", vary |-> "", step |-> 0]} \cup
    {[fn |-> "main", vary |-> vary, step |-> k] :
        vary \in {"emin", "emax", "npts", "emax,npts"}, k \in 0 .. stepcount_main - 1}

FunctionInputs ==
    XsInputs \cup OccupancyInputs \cup PsecondaryInputs \cup LossInputs \cup SweepInputs

InitFunctions ==
    /\ inp \in FunctionInputs
    /\ sol = None
    /\ ana = None
    /\ N_e_cache = <<>>
    /\ calls = <<>>
    /\ memo = {}
    /\ pc = "start"
    /\ step = 0
    /\ again = 0
    /\ fstat = NoFile
    /\ estimators = <<>>
    /\ estfile = NotOpened

Returned(fn, out) ==
    /\ sol' = [fn |-> fn, err |-> "", out |-> out]
    /\ pc' = "returned"
    /\ UNCHANGED <<inp, ana, N_e_cache, calls, memo, step, again, fstat, estimators, estfile>>

Call_get_xs_excitation_vector ==
    /\ pc = "start"
    /\ inp.fn = "get_xs_excitation_vector"
    /\ ExactVec(get_xs_excitation_vector(inp.engrid, inp.row))
    /\ Returned(inp.fn, get_xs_excitation_vector(inp.engrid, inp.row))

Call_get_electronoccupancy ==
    /\ pc = "start"
    /\ inp.fn = "get_electronoccupancy"
    /\ Returned(inp.fn, get_electronoccupancy(inp.atomic_number, inp.ion_stage,
                                              inp.nt_shells))

Call_Psecondary ==
    /\ pc = "start"
    /\ inp.fn = "Psecondary"
    /\ \E r \in {Psecondary(inp.e_p, inp.ionpot_ev, inp.J,
                             IF inp.given = "e_s" THEN inp.x ELSE RI(-1),
                             IF inp.given = "epsilon" THEN RAdd(inp.x, inp.ionpot_ev)
                             ELSE RI(-1))} :
          /\ r.v # Huge
          /\ Returned(inp.fn, r)

\* a call of lossfunction ends with its value or with its exception (out.err)
Call_lossfunction ==
    /\ pc = "start"
    /\ inp.fn = "lossfunction"
    /\ \E r \in {lossfunction(inp.energy_ev, inp.nne_cgs, inp.nnetot_cgs,
                              inp.use_nnetot)} :
          /\ r.v # Huge
          /\ Returned(inp.fn, r)

\* the grid of one step of main
Call_main_linspace ==
    /\ pc = "start"
    /\ inp.fn = "main"
    /\ Returned(inp.fn, step_linspace(inp.vary, inp.step))

NextFunctions ==
    \/ Call_Psecondary
    \/ Call_main_linspace
    \/ Call_lossfunction
    \/ Call_get_xs_excitation_vector
    \/ Call_get_electronoccupancy

SpecFunctions == InitFunctions /\ [][NextFunctions]_vars

ReturnedFrom(fn) == pc = "returned" /\ sol.fn = fn

\* C13: get_xs_excitation_vector returns a fully defined vector whose entry at grid
\* index j is 0 when E_j < dE, and for E_j >= dE the collision-strength form when
\* collstr >= 0, else the oscillator-strength form when the transition is
\* permitted, else 0, for every transition energy and every uniform grid
C13_ExcitationVector ==
    ReturnedFrom("get_xs_excitation_vector") =>
        \A j \in DOMAIN inp.engrid :
            /\ sol.out[j] # Uninit
            /\ sol.out[j] =
                  (IF inp.engrid[j] < inp.row.epsilon_trans_ev THEN RI(0)
                   ELSE IF inp.row.collstr >= 0
                        THEN xs_collision_strength(inp.row, inp.engrid[j])
                   ELSE IF ~inp.row.forbidden
                        THEN xs_oscillator_strength(inp.row, inp.engrid[j])
                   ELSE RI(0))

\* the number of bound electrons of the call
Nbound == inp.atomic_number - (inp.ion_stage - 1)

\* the shells in the order in which they are filled, and what each can hold
FillOrder == <<0, 1, 2, 3, 4, 5, 6, 9, 7, 8>>

Capacity(k) ==
    IF k \in {0, 1, 2, 4, 5} THEN 2
    ELSE IF k \in {3, 6, 7} THEN 4
    ELSE IF k = 8 THEN 6
    ELSE IF inp.ion_stage = 1 THEN 2
    ELSE IF inp.ion_stage = 2 THEN 1
    ELSE 0

RECURSIVE SumOver(_, _)
SumOver(q, ks) ==
    IF ks = {} THEN 0
    ELSE LET k == CHOOSE k \in ks : TRUE IN q[k] + SumOver(q, ks \ {k})

TotalCapacity == SumOver([k \in 0 .. 9 |-> Capacity(k)], 0 .. 9)

\* C14: when the bound electrons fit the modelled shells, the occupancies that
\* get_electronoccupancy returns sum to Z - (ion_stage - 1), no shell holds more than
\* its capacity, and a shell is non-empty only if every shell before it in the order
\* K, L1, L2, L3, M1, M2, M3, N1, M4, M5 is full
C14_FillOrder ==
    (ReturnedFrom("get_electronoccupancy") /\ 0 <= Nbound /\ Nbound <= TotalCapacity) =>
        /\ SumOver(sol.out.q, DOMAIN sol.out.q) = Nbound
        /\ \A k \in DOMAIN sol.out.q : sol.out.q[k] <= Capacity(k)
        /\ \A n \in DOMAIN FillOrder : \A m \in 1 .. n - 1 :
              sol.out.q[FillOrder[n]] > 0 =>
                  sol.out.q[FillOrder[m]] = Capacity(FillOrder[m])

\* an ion with one electron in N1, which is then full, and a partly filled M5
C14_Witness ==
    /\ ReturnedFrom("get_electronoccupancy")
    /\ Nbound <= TotalCapacity
    /\ inp.ion_stage = 2
    /\ sol.out.q[9] = 1
    /\ sol.out.q[8] \in 1 .. 5

\* C15: when the bound electrons do not fit the modelled shells the call does not
\* return: no occupancy with a sum below Z - (ion_stage - 1) is returned
C15_OverflowAborts ==
    ReturnedFrom("get_electronoccupancy") =>
        SumOver(sol.out.q, DOMAIN sol.out.q) >= Nbound

C18_LossPositive ==
    (/\ ReturnedFrom("lossfunction")
     /\ RGt(inp.energy_ev, RI(0))
     /\ RGt(inp.nne_cgs, RI(0))
     /\ RGt(inp.nnetot_cgs, RI(0)))
    => /\ sol.out.err = ""
       /\ IsFinite(sol.out.v)
       /\ RGt(sol.out.v, RI(0))

\* C20: lossfunction chooses its form by the 14 eV threshold: above 14 eV the
\* relativistic form, whose logarithm is that of 2E/zetae and which is guarded by
\* the assertion 2E > zetae; at 14 eV and below the non-relativistic form.  The
\* density in both is n_e, or n_e_total when use_nnetot is set.
LossDensity == IF inp.use_nnetot THEN inp.nnetot_cgs ELSE inp.nne_cgs

LossForm(logarithm) ==
    [err |-> "",
     v |-> RMul(RDiv(LossDensity, inp.energy_ev), RDiv(logarithm, RI(2)))]

C20_BranchByThreshold ==
    ReturnedFrom("lossfunction") =>
        LET E2 == RMul(inp.energy_ev, inp.energy_ev)
        IN IF RGt(inp.energy_ev, RI(14))
           THEN IF RGt(RMul(RI(4), E2), LossDensity)
                THEN sol.out = LossForm(LogPos(RDiv(RMul(RI(4), E2), LossDensity)))
                ELSE sol.out.err = "AssertionError"
           ELSE sol.out = LossForm(LogPos(RDiv(RMul(E2, inp.energy_ev), LossDensity)))

\* a call at exactly 14 eV with use_nnetot set has returned the non-relativistic
\* value of n_e_total, which is neither the relativistic value nor that of n_e
C20_Witness ==
    /\ ReturnedFrom("lossfunction")
    /\ inp.energy_ev = RI(14)
    /\ inp.use_nnetot
    /\ sol.out.err = ""
    /\ sol.out.v = RMul(RDiv(inp.nnetot_cgs, RI(14)),
                        RDiv(LogPos(RDiv(RI(2744), inp.nnetot_cgs)), RI(2)))
    /\ sol.out.v # lossfunction(RI(14), inp.nne_cgs, inp.nne_cgs, FALSE).v
    /\ sol.out.v # RMul(RDiv(inp.nnetot_cgs, RI(14)),
                        RDiv(LogPos(RDiv(RI(784), inp.nnetot_cgs)), RI(2)))

\* C19: in every step k = 0 .. 19 of every -vary mode started from the default
\* arguments, the grid that main builds has a positive first point and strictly
\* increasing points (its spacing is uniform by the construction of linspace).
C19_SweepGrids ==
    (ReturnedFrom("main") /\ inp.vary # "")
    => /\ ScLt(Pow2(RI(0), 0), sol.out.start)
       /\ ScLt(Pow2(RI(1), 0), sol.out.num)
       /\ ScLt(sol.out.start, sol.out.stop)

\* C22: no ionisation fraction per ion and no excitation fraction per ion that
\* analyse_ntspectrum returns is above 1.
C22_PerIonAtMostOne ==
    (ana.err = "") =>
        \A n \in DOMAIN inp.ions :
            /\ ~RGt(ana.frac_ionization_ion[inp.ions[n]], RI(1))
            /\ ~RGt(ana.frac_excitation_ion[inp.ions[n]], RI(1))

\* C23: N_e_cache is written once per key.  A call of calculate_N_e with energy 0
\* returns 0 and leaves no entry for 0; a call with any other energy returns what
\* the cache holds for that energy after it; and every entry of the cache stays,
\* with its value, in every step of the program.
CacheStep ==
    /\ \A e \in DOMAIN N_e_cache :
           e \in DOMAIN N_e_cache' /\ N_e_cache'[e] = N_e_cache[e]
    /\ RI(0) \notin DOMAIN N_e_cache'
    /\ \A k \in DOMAIN calls' :
           IF calls'[k].energy_ev = RI(0) THEN calls'[k].v = RI(0)
           ELSE /\ calls'[k].energy_ev \in DOMAIN N_e_cache'
                /\ calls'[k].v = N_e_cache'[calls'[k].energy_ev]

C23_CacheWriteOnce == [][CacheStep]_vars

\* calls with energy 0 and with an energy stored by an earlier solve have been made,
\* and the latter returned the stored value, which its own arguments do not give
C23_Witness ==
    /\ \E k \in DOMAIN calls : calls[k].energy_ev = RI(0) /\ calls[k].v = RI(0)
    /\ \E k \in DOMAIN calls :
          /\ calls[k].energy_ev \in DOMAIN N_e_cache
          /\ calls[k].v = N_e_cache[calls[k].energy_ev]
          /\ calls[k].v # calls[k].own

\* C24: the assertion of the fold-over integral cannot fail.  On the grid of an
\* integral-form assembly, for every shell with I >= E_0 and every row i, each column
\* j that reaches the assertion has E_j >= 2 E_i + I, hence
\* epsilon_lower = E_i + I <= epsilon_upper = (E_j + I) / 2; and every fold-over term
\* that was accumulated has its bounds in this order.
ReachesFoldAssertion(shell, i, j) ==
    /\ shell.ionpot_ev >= inp.engrid[0]
    /\ j >= jstart(i, ThresholdColumn(shell))
    /\ secondintegralstartindex(inp.engrid, shell, i).err = ""
    /\ in_second_integral(j, secondintegralstartindex(inp.engrid, shell, i).v)

C24_FoldAssertionHolds ==
    (Current /\ sol.form = "integral") =>
        /\ \A shell \in ShellsInScope : \A i \in DOMAIN inp.engrid :
              \A j \in DOMAIN inp.engrid :
                 ReachesFoldAssertion(shell, i, j) =>
                    /\ inp.engrid[j] >= 2 * inp.engrid[i] + shell.ionpot_ev
                    /\ RLe(RI(inp.engrid[i] + shell.ionpot_ev),
                           Rat(inp.engrid[j] + shell.ionpot_ev, 2))
        /\ \A k \in DOMAIN sol.writes :
              sol.writes[k].kind = "fold" =>
                 RLe(sol.writes[k].epsilon_lower, sol.writes[k].epsilon_upper)

\* an assembly that returned with a fold-over term whose bounds are equal (the
\* column with E_j = 2 E_i + I, the first after secondintegralstartindex) and one
\* whose lower bound is strictly below the upper
C24_Witness ==
    /\ Current /\ sol.err = "" /\ sol.form = "integral"
    /\ \E shell \in ShellsInScope : \E i \in DOMAIN inp.engrid :
          \E j \in DOMAIN inp.engrid :
             /\ ReachesFoldAssertion(shell, i, j)
             /\ j = secondintegralstartindex(inp.engrid, shell, i).v + 1
             /\ \E k \in WritesOf("fold", shell.index, i) :
                   /\ sol.writes[k].j = j
                   /\ sol.writes[k].epsilon_lower = sol.writes[k].epsilon_upper
    /\ \E k \in DOMAIN sol.writes :
          /\ sol.writes[k].kind = "fold"
          /\ RLt(sol.writes[k].epsilon_lower, sol.writes[k].epsilon_upper)

\* C25: when solve_spencerfano has assembled and solved for a shell table whose
\* shells in scope all have E_0 <= ionpot_ev < E_max + delta, the analysis does not
\* end with an unbound index or an index out of range: for every such shell
\* get_index(ionpot_ev) gives an index, and that index plus one is a grid index.
C25_AnalysisIndexValid ==
    (/\ ana.err # "none"
     /\ sol.err = ""
     /\ sol.form = "integral"
     /\ \A shell \in ShellsInScope :
           /\ inp.engrid[0] <= shell.ionpot_ev
           /\ shell.ionpot_ev < Last(inp.engrid) + Deltaen(inp.engrid))
    => /\ ana.err \notin {"UnboundLocalError", "IndexError"}
       /\ \A shell \in ShellsInScope :
             /\ get_index(RI(shell.ionpot_ev), inp.engrid).err = ""
             /\ get_index(RI(shell.ionpot_ev), inp.engrid).v + 1 \in DOMAIN inp.engrid

\* C26: the differential form does not support excitation.  A call with
\* noexcitation = False and at least one ion ends with an AssertionError and gives
\* no spectrum, and every call that returns gives an empty table of transitions.
C26_DifferentialNoExcitation ==
    (Current /\ sol.form = "differential") =>
        /\ (~inp.noexcitation /\ inp.ions # <<>>) =>
               /\ sol.err = "AssertionError"
               /\ pc = "raised"
               /\ memo = {}
        /\ sol.err = "" => sol.dftransitions = <<>>

\* a differential-form call with excitation asked for has assembled the loss and
\* ionisation terms of its first ion and then failed
C26_Witness ==
    /\ Current /\ sol.form = "differential"
    /\ ~inp.noexcitation /\ inp.ions # <<>>
    /\ sol.err = "AssertionError"
    /\ \E k \in DOMAIN sol.writes : sol.writes[k].kind = "loss"
    /\ \E k \in DOMAIN sol.writes : sol.writes[k].kind # "loss"

\* C27: in an analysis that returns, an ion whose accumulated ionisation fraction
\* is exactly zero gets gamma_nt = 0 (its effective ionisation potential counts as
\* infinite), and every other ion gets
\* gamma_nt = deposition_density_ev / nntot / (ionpot_valence * X_ion / frac_ionization_ion).
C27_GammaOfZeroFraction ==
    (ana.err = "") =>
        \A n \in DOMAIN inp.ions :
            LET ion == inp.ions[n]
                frac == ana.frac_ionization_ion[ion]
                X_ion == RDiv(inp.ionpopdict[ion], inp.nntot)
                valence == ionpot_valence(dfcollion_thision(inp.dfcollion, ion[1], ion[2]))
            IN IF frac = RI(0) THEN ana.gamma_nt[ion] = RI(0)
               ELSE ana.gamma_nt[ion]
                       = RDiv(RDiv(inp.deposition_density_ev, inp.nntot),
                              RDiv(RMul(valence, X_ion), frac))

\* C28: with -ostat and the ion list that main constructs, the file holds the
\* header and one row for each step made so far, and no step's row formatting
\* fails for a table entry that is missing after analyse_ntspectrum returned.
C28_OstatRows ==
    (inp.ostat /\ inp.ions = main_ions) =>
        /\ fstat.err # "KeyError"
        /\ fstat.lines[1] = ostat_header
        /\ pc = "recorded" => Len(fstat.lines) = 1 + (step + 1)
        /\ (pc = "recorded" /\ step + 1 = stepcount(inp.vary))
               => Len(fstat.lines) = 1 + stepcount(inp.vary)

(***************************************************************************)
(* estimators.py: parse_ion_row and read_estimators.                       *)
(*                                                                         *)
(* A row is the token list of a line (line.split()), written down by what  *)
(* the code reads of it: the head token, the numbers that int() and        *)
(* float() make of the tokens, and NotAnInt for an ion stage token that    *)
(* int() rejects.  A dict is a function; the keys of a table of            *)
(* parse_ion_row are IonKey(Z, ion_stage) for (Z, ion_stage), ElKey(Z) for *)
(* the atomic number Z, and TotalKey for 'total'.                          *)
(***************************************************************************)
Put(dict, key, value) ==
    [k \in DOMAIN dict \cup {key} |-> IF k = key THEN value ELSE dict[k]]

Get(dict, key, default) == IF key \in DOMAIN dict THEN dict[key] ELSE default

IonKey(atomic_number, ion_stage) == <<"ion", atomic_number, ion_stage>>

ElKey(atomic_number) == <<"element", atomic_number, 0>>

TotalKey == <<"total", 0, 0>>

NotAnInt == -1

\* 'timestep 3 modelgridindex 0 TR .. Te .. W .. TJ .. grey_depth .. nne ..',
\* or 'timestep 3 modelgridindex 0 EMPTYCELL'
HeaderRow(timestep, modelgridindex, emptycell, Te, nne) ==
    [head |-> "timestep", timestep |-> timestep, modelgridindex |-> modelgridindex,
     emptycell |-> emptycell, TR |-> Te + 1, Te |-> Te, W |-> 1, TJ |-> Te + 2,
     nne |-> nne]

\* 'populations Z=26 1: 0.5 2: 1.5', or with 'Z=' and '26' as two tokens
IonRow(variablename, atomic_number, pairs) ==
    [head |-> variablename, atomic_number |-> atomic_number, pairs |-> pairs]

Tok(ion_stage, value) == [ion_stage |-> ion_stage, value |-> value]

\* 'heating: gamma 2 gamma/gamma_dep 4' and 'cooling: ff 1'
RatesRow(head, pairs) == [head |-> head, pairs |-> pairs]

Rate(token, value) == [token |-> token, value |-> value]

BlankRow == [head |-> ""]

\* the update of the element sum and of the total of a populations table
\* (lines 146-153)
add_populations(table, atomic_number, ion_stage, value_thision) ==
    LET stored == Put(table, IonKey(atomic_number, ion_stage), value_thision)
        elpop == Get(stored, ElKey(atomic_number), 0)
        withel == Put(stored, ElKey(atomic_number), elpop + value_thision)
        totalpop == Get(withel, TotalKey, 0)
    IN Put(withel, TotalKey, totalpop + value_thision)

\* the loop of parse_ion_row over the pairs of tokens (lines 137-158)
RECURSIVE parse_ion_tokens(_, _, _, _)
parse_ion_tokens(pairs, variablename, atomic_number, outdict) ==
    IF pairs = <<>> THEN [err |-> "", outdict |-> outdict]
    ELSE IF Head(pairs).ion_stage = NotAnInt
    THEN [err |-> "", outdict |-> outdict]
    ELSE
        LET ion_stage == Head(pairs).ion_stage
            value_thision == Head(pairs).value
            key == IonKey(atomic_number, ion_stage)
            stored == Put(outdict, variablename,
                          Put(outdict[variablename], key, value_thision))
        IN  IF variablename = "populations"
            THEN parse_ion_tokens(
                     Tail(pairs), variablename, atomic_number,
                     Put(outdict, variablename,
                         add_populations(outdict[variablename], atomic_number,
                                         ion_stage, value_thision)))
            ELSE IF variablename = "Alpha_R*nne"
            THEN LET made == IF "Alpha_R" \in DOMAIN stored THEN stored
                             ELSE Put(stored, "Alpha_R", <<>>)
                 IN  IF "nne" \notin DOMAIN made
                     THEN [err |-> "KeyError", outdict |-> made]
                     ELSE IF made["nne"] = 0
                     THEN [err |-> "ZeroDivisionError", outdict |-> made]
                     ELSE parse_ion_tokens(
                              Tail(pairs), variablename, atomic_number,
                              Put(made, "Alpha_R",
                                  Put(made["Alpha_R"], key,
                                      Rat(value_thision, made["nne"]))))
            ELSE parse_ion_tokens(Tail(pairs), variablename, atomic_number, stored)

parse_ion_row(row, outdict) ==
    parse_ion_tokens(row.pairs, row.head, row.atomic_number,
                     IF row.head \in DOMAIN outdict THEN outdict
                     ELSE Put(outdict, row.head, <<>>))

\* a 'timestep' row that opens a block (lines 241-256)
new_estimators_block(row, modeldata) ==
    LET base == [velocity |-> modeldata[row.modelgridindex],
                 emptycell |-> row.emptycell]
    IN  IF row.emptycell THEN base
        ELSE [velocity |-> modeldata[row.modelgridindex], emptycell |-> FALSE,
              TR |-> row.TR, Te |-> row.Te, W |-> row.W, TJ |-> row.TJ,
              nne |-> row.nne]

\* the tokens of a 'heating:' or 'cooling:' row stored under prefix + token
\* (lines 262-263, 270-271)
RECURSIVE store_rates(_, _, _)
store_rates(pairs, prefix, outdict) ==
    IF pairs = <<>> THEN outdict
    ELSE store_rates(Tail(pairs), prefix,
                     Put(outdict, prefix \o Head(pairs).token, Head(pairs).value))

\* a 'heating:' row (lines 261-267)
parse_heating_row(row, outdict) ==
    LET stored == store_rates(row.pairs, "heating_", outdict)
    IN  IF "heating_gamma/gamma_dep" \notin DOMAIN stored
        THEN [err |-> "KeyError", outdict |-> stored]
        ELSE IF stored["heating_gamma/gamma_dep"] > 0
        THEN IF "heating_gamma" \notin DOMAIN stored
             THEN [err |-> "KeyError", outdict |-> stored]
             ELSE [err |-> "",
                   outdict |-> Put(stored, "gamma_dep",
                                   Rat(stored["heating_gamma"],
                                       stored["heating_gamma/gamma_dep"]))]
        ELSE [err |-> "", outdict |-> stored]

\* before the first file is opened (lines 194-199); seen counts the 'timestep'
\* rows read for a key, which the warning of lines 236-238 would report
StartReading ==
    [file |-> 0, line |-> 0, timestep |-> 0, modelgridindex |-> 0,
     skip_block |-> FALSE, runfolder_timesteps |-> <<>>,
     runfolder_alltimesteps_found |-> {}, seen |-> <<>>]

\* the file being read and its folder
estfilepath == inp.files[estfile.file]

estfilefolderpath == estfilepath.folder

\* for estfilepath in sorted(estimfiles): the head of the loop (lines 202-219)
OpenFile ==
    /\ pc = "nextfile"
    /\ estfile.file < Len(inp.files)
    /\ LET folder == inp.files[estfile.file + 1].folder
       IN  IF inp.match_timestep >= 0 /\ folder \in estfile.runfolder_alltimesteps_found
           THEN IF folder \notin DOMAIN estfile.runfolder_timesteps
                THEN /\ pc' = "raised"
                     /\ estfile' = [estfile EXCEPT !.file = @ + 1]
                ELSE IF inp.match_timestep \notin estfile.runfolder_timesteps[folder]
                THEN /\ pc' = "nextfile"
                     /\ estfile' = [estfile EXCEPT !.file = @ + 1]
                ELSE /\ pc' = "reading"
                     /\ estfile' = [estfile EXCEPT !.file = @ + 1, !.line = 0,
                                                   !.timestep = 0, !.modelgridindex = 0,
                                                   !.skip_block = FALSE]
           ELSE /\ pc' = "reading"
                /\ estfile' = [estfile EXCEPT !.file = @ + 1, !.line = 0,
                                              !.timestep = 0, !.modelgridindex = 0,
                                              !.skip_block = FALSE]
    /\ UNCHANGED <<inp, sol, ana, N_e_cache, calls, memo, step, again, fstat, estimators>>

\* the outcome of a row that changes the record of the current block
StoreRecord(r) ==
    /\ estimators' = Put(estimators, <<estfile.timestep, estfile.modelgridindex>>,
                         r.outdict)
    /\ estfile' = [estfile EXCEPT !.line = @ + 1]
    /\ pc' = IF r.err = "" THEN "reading" ELSE "raised"

SkipRow ==
    /\ estfile' = [estfile EXCEPT !.line = @ + 1]
    /\ UNCHANGED <<estimators, pc>>

\* the duplicate block test of lines 234-235
is_duplicate_block(key) ==
    key \in DOMAIN estimators /\ ~estimators[key]["emptycell"]

\* for line in estfile: one line (lines 220-271)
ReadLine ==
    /\ pc = "reading"
    /\ estfile.line < Len(estfilepath.rows)
    /\ LET row == estfilepath.rows[estfile.line + 1]
           current == <<estfile.timestep, estfile.modelgridindex>>
       IN  IF row.head = ""
           THEN SkipRow
           ELSE IF row.head = "timestep"
           THEN IF /\ inp.match_timestep >= 0
                   /\ inp.match_modelgridindex >= 0
                   /\ <<inp.match_timestep, inp.match_modelgridindex>> \in DOMAIN estimators
                THEN /\ pc' = "returned"
                     /\ UNCHANGED <<estimators, estfile>>
                ELSE LET key == <<row.timestep, row.modelgridindex>>
                         seen == Put(estfile.seen, key, Get(estfile.seen, key, 0) + 1)
                     IN  IF is_duplicate_block(key)
                         THEN /\ estfile' = [estfile EXCEPT !.line = @ + 1,
                                                 !.timestep = row.timestep,
                                                 !.modelgridindex = row.modelgridindex,
                                                 !.skip_block = TRUE, !.seen = seen]
                              /\ UNCHANGED <<estimators, pc>>
                         ELSE /\ estfile' =
                                     [estfile EXCEPT !.line = @ + 1,
                                         !.timestep = row.timestep,
                                         !.modelgridindex = row.modelgridindex,
                                         !.skip_block = FALSE, !.seen = seen,
                                         !.runfolder_timesteps =
                                             Put(@, estfilefolderpath,
                                                 Get(@, estfilefolderpath, {})
                                                     \cup {row.timestep})]
                              /\ IF row.modelgridindex \in DOMAIN inp.modeldata
                                 THEN /\ estimators' =
                                            Put(estimators, key,
                                                new_estimators_block(row, inp.modeldata))
                                      /\ pc' = "reading"
                                 ELSE /\ estimators' = Put(estimators, key, <<>>)
                                      /\ pc' = "raised"
           ELSE IF "atomic_number" \in DOMAIN row /\ ~estfile.skip_block
           THEN IF current \notin DOMAIN estimators
                THEN /\ pc' = "raised"
                     /\ estfile' = [estfile EXCEPT !.line = @ + 1]
                     /\ UNCHANGED estimators
                ELSE StoreRecord(parse_ion_row(row, estimators[current]))
           ELSE IF row.head = "heating:" /\ ~estfile.skip_block
           THEN IF current \notin DOMAIN estimators
                THEN /\ pc' = "raised"
                     /\ estfile' = [estfile EXCEPT !.line = @ + 1]
                     /\ UNCHANGED estimators
                ELSE StoreRecord(parse_heating_row(row, estimators[current]))
           ELSE IF row.head = "cooling:" /\ ~estfile.skip_block
           THEN IF current \notin DOMAIN estimators
                THEN /\ pc' = "raised"
                     /\ estfile' = [estfile EXCEPT !.line = @ + 1]
                     /\ UNCHANGED estimators
                ELSE StoreRecord([err |-> "",
                                  outdict |-> store_rates(row.pairs, "cooling_",
                                                          estimators[current])])
           ELSE SkipRow
    /\ UNCHANGED <<inp, sol, ana, N_e_cache, calls, memo, step, again, fstat>>

\* the end of a file (lines 273-280)
CloseFile ==
    /\ pc = "reading"
    /\ estfile.line = Len(estfilepath.rows)
    /\ IF /\ inp.match_modelgridindex < 0
          /\ estfilefolderpath \notin estfile.runfolder_alltimesteps_found
          /\ inp.match_timestep >= 0
          /\ estfilefolderpath \notin DOMAIN estfile.runfolder_timesteps
       THEN /\ pc' = "raised"
            /\ UNCHANGED estfile
       ELSE /\ pc' = "nextfile"
            /\ estfile' = [estfile EXCEPT !.runfolder_alltimesteps_found =
                                              @ \cup {estfilefolderpath}]
    /\ UNCHANGED <<inp, sol, ana, N_e_cache, calls, memo, step, again, fstat, estimators>>

\* return estimators (line 281)
ReturnEstimators ==
    /\ pc = "nextfile"
    /\ estfile.file = Len(inp.files)
    /\ ~(inp.files = <<>> /\ inp.match_modelgridindex < 0)
    /\ pc' = "returned"
    /\ UNCHANGED <<inp, sol, ana, N_e_cache, calls, memo, step, again, fstat,
                   estimators, estfile>>

\* if not estimfiles: return False (lines 189-191); estimfiles is a list, which
\* can be empty, only when no cell is asked for
NoEstimatorFiles ==
    /\ pc = "nextfile"
    /\ inp.files = <<>>
    /\ inp.match_modelgridindex < 0
    /\ pc' = "returned False"
    /\ UNCHANGED <<inp, sol, ana, N_e_cache, calls, memo, step, again, fstat,
                   estimators, estfile>>

\* the blocks of the estimator files: a cell with all its rows, the block
\* that a restart writes again for it (without heating and cooling rates),
\* the cell as an empty cell, another time step with a stage token that is
\* no number, and a cell whose populations row comes twice
block_first ==
    <<HeaderRow(0, 0, FALSE, 5, 2),
      IonRow("populations", 26, <<Tok(1, 1), Tok(2, 2)>>),
      RatesRow("heating:", <<Rate("gamma", 2), Rate("gamma/gamma_dep", 4)>>),
      RatesRow("cooling:", <<Rate("ff", 1)>>)>>

block_restart ==
    <<HeaderRow(0, 0, FALSE, 6, 2),
      IonRow("populations", 26, <<Tok(1, 3), Tok(2, 4)>>)>>

block_empty == <<HeaderRow(0, 0, TRUE, 0, 0)>>

block_other ==
    <<HeaderRow(1, 0, FALSE, 7, 3), BlankRow,
      IonRow("populations", 28, <<Tok(2, 1), Tok(NotAnInt, 0), Tok(3, 5)>>),
      IonRow("Alpha_R*nne", 28, <<Tok(2, 6)>>)>>

block_twice ==
    <<HeaderRow(1, 1, FALSE, 5, 2),
      IonRow("populations", 26, <<Tok(1, 1), Tok(2, 2)>>),
      IonRow("populations", 27, <<Tok(1, 1)>>),
      IonRow("populations", 26, <<Tok(2, 3)>>)>>

EstimatorFiles ==
    {block_first, block_first \o block_restart, block_restart,
     block_empty \o block_other, block_empty, block_twice,
     block_other \o block_first, block_empty \o block_restart}

\* the number of estimator files of a model
MaxFiles == 2

\* the run folders of a model, in the order of their paths
RunFolders == {1, 2}

\* sorted(estimfiles): the files come in the order of their paths, so those
\* of a folder come together
SortedFiles ==
    {files \in UNION {[1..n -> [folder : RunFolders, rows : EstimatorFiles]] :
                         n \in 0..MaxFiles} :
        \A i \in DOMAIN files : \A j \in DOMAIN files :
            i < j => files[i].folder <= files[j].folder}

\* the arguments of read_estimators with the files and the model data it finds
EstimatorInputs ==
    [files : SortedFiles,
     match_timestep : {-1, 0, 1},
     match_modelgridindex : {-1, 0},
     modeldata : {[modelgridindex \in {0, 1} |-> 10 * (modelgridindex + 1)]}]

InitEstimators ==
    /\ inp \in EstimatorInputs
    /\ sol = None
    /\ ana = None
    /\ N_e_cache = <<>>
    /\ calls = <<>>
    /\ memo = {}
    /\ pc = "nextfile"
    /\ step = 0
    /\ again = 0
    /\ fstat = NoFile
    /\ estimators = <<>>
    /\ estfile = StartReading

NextEstimators ==
    \/ NoEstimatorFiles
    \/ OpenFile
    \/ ReadLine
    \/ CloseFile
    \/ ReturnEstimators

SpecEstimators == InitEstimators /\ [][NextEstimators]_vars

\* C21: a row changes the record of a key only while the first block read for
\* that key is being read: neither the header nor a row of a later block with
\* the key changes any field of the record.
C21_FirstBlockKept ==
    [][\A key \in DOMAIN estimators :
           (key \in DOMAIN estimators' /\ estimators'[key] # estimators[key])
               => /\ <<estfile'.timestep, estfile'.modelgridindex>> = key
                  /\ estfile'.seen[key] = 1]_vars

RECURSIVE SumPopulations(_, _)
SumPopulations(table, keys) ==
    IF keys = {} THEN 0
    ELSE LET k == CHOOSE x \in keys : TRUE
         IN table[k] + SumPopulations(table, keys \ {k})

\* C29: in every record, populations[Z] is the sum of populations[(Z, ion_stage)]
\* over the ion stages stored for Z, and populations['total'] is the sum of all
\* the per-ion populations stored.
C29_PopulationAggregates ==
    \A key \in DOMAIN estimators :
        "populations" \in DOMAIN estimators[key] =>
            LET table == estimators[key]["populations"]
                ionkeys == {k \in DOMAIN table : k[1] = "ion"}
            IN  /\ \A k \in DOMAIN table :
                       k[1] = "element" =>
                           table[k] = SumPopulations(table, {i \in ionkeys : i[2] = k[2]})
                /\ TotalKey \in DOMAIN table =>
                       table[TotalKey] = SumPopulations(table, ionkeys)

====
